---- MODULE Spec2Model ----
(***************************************************************************)
(* A model of the eMaps backend: the OSM graph builder (osm/pbf.rs), the   *)
(* spatial grid (graph/grid.rs), the A* router (graph/router.rs) and the   *)
(* range-constrained planner of the /shortest-path handler (rest/mod.rs).  *)
(*                                                                         *)
(* Arrays of the program are TLA+ sequences; the program's 0-based index i *)
(* is the sequence position i + 1 (operator At).                           *)
(***************************************************************************)
EXTENDS Integers, Sequences, FiniteSets, TLC

At(seq, i) == seq[i + 1]

Abs(x) == IF x < 0 THEN -x ELSE x

\* Option<T>: None is the empty sequence, Some(x) the one-element sequence.
None == <<>>

Some(x) == <<x>>

IsSome(o) == o /= <<>>

Unwrap(o) == o[1]

\* u32::max_value().  TLC's integers are 32-bit signed, so the model uses the
\* largest value TLC can hold; every cost and distance of the model is far
\* below it, as every cost of a real map is far below 2^32 - 1.
U32Max == 2147483647

(***************************************************************************)
(* osm/options.rs: the mode algebra.                                       *)
(***************************************************************************)
Transport == {"Car", "Bike", "Walk", "All", "CarBike", "BikeWalk"}

Routing == {"Time", "Distance"}

ChargingOptions == {"Car", "Bike", "CarBike", "None"}

\* contains without the clause of BikeWalk.
Transport_contains_without_BikeWalk(self, other) ==
    \/ self = "All"
    \/ self = other
    \/ (self = "CarBike" /\ (other = "Car" \/ other = "Bike"))

Transport_contains(self, other) ==
    \/ self = "All"
    \/ self = other
    \/ (self = "CarBike" /\ (other = "Car" \/ other = "Bike"))
    \/ (self = "BikeWalk" /\ (other = "Bike" \/ other = "Walk"))

ChargingOptions_from(transport) ==
    CASE transport = "Bike" -> "Bike"
      [] transport = "Car" -> "Car"
      [] transport = "CarBike" -> "CarBike"
      [] OTHER -> "None"

ChargingOptions_contains(self, other) ==
    \/ self = "CarBike"
    \/ self = other
    \/ (self = "CarBike" /\ (other = "Car" \/ other = "Bike"))

(***************************************************************************)
(* osm/highway.rs: road classes and speeds.                                *)
(***************************************************************************)
Highway ==
    {"motorway", "trunk", "primary", "secondary", "tertiary", "unclassified",
     "residential", "motorway_link", "trunk_link", "primary_link",
     "secondary_link", "tertiary_link", "living_street", "service", "track",
     "road", "cycleway"}

\* Highway::from: the highway tag, when there is one and it names a class.
Highway_from(way) ==
    IF IsSome(way.highway) /\ Unwrap(way.highway) \in Highway
    THEN way.highway
    ELSE None

default_speed(highway) ==
    CASE highway \in {"motorway", "trunk"} -> 120
      [] highway \in {"primary", "secondary", "tertiary"} -> 100
      [] highway = "unclassified" -> 50
      [] highway = "residential" -> 30
      [] highway \in {"motorway_link", "trunk_link"} -> 60
      [] highway \in {"primary_link", "secondary_link", "tertiary_link"} -> 50
      [] highway = "living_street" -> 5
      [] highway = "service" -> 30
      [] OTHER -> 30

Transport_from(highway) ==
    CASE highway \in {"residential", "tertiary", "unclassified", "service",
                      "living_street", "tertiary_link"} -> "All"
      [] highway \in {"secondary", "secondary_link", "primary",
                      "primary_link"} -> "CarBike"
      [] highway \in {"track", "road"} -> "BikeWalk"
      [] highway \in {"motorway", "motorway_link", "trunk",
                      "trunk_link"} -> "Car"
      [] highway = "cycleway" -> "Bike"
      [] OTHER -> "Walk"

\* Kmh::from: the maxspeed tag is absent (None), a bare integer (km/h), or
\* "<n> mph" (converted by 1.609344 and truncated); anything else is None.
Kmh_from(way) ==
    CASE way.maxspeed = None -> None
      [] Unwrap(way.maxspeed).unit = "kmh" -> Some(Unwrap(way.maxspeed).value)
      [] Unwrap(way.maxspeed).unit = "mph" ->
             Some((Unwrap(way.maxspeed).value * 1609344) \div 1000000)
      [] OTHER -> None

\* f32: a positive finite value is [m, e], the 24-bit significand m in
\* 2^23 .. 2^24 - 1 (8388608 .. 16777215) and the value m * 2^e; zero has
\* m = 0.
RECURSIVE Pow2(_)
Pow2(k) == IF k = 0 THEN 1 ELSE 2 * Pow2(k - 1)

F32(m, e) == [m |-> m, e |-> e]

\* The f32 nearest to m * 2^e (plus a nonzero rest below the last bit of m
\* when sticky), ties to the even significand.
RECURSIVE f32_nearest(_, _, _)
f32_nearest(m, e, sticky) ==
    CASE m = 0 -> F32(0, 0)
      [] m >= 33554432 -> f32_nearest(m \div 2, e + 1, sticky \/ m % 2 = 1)
      [] m >= 16777216 ->
             LET c == m \div 2
                 up == m % 2 = 1 /\ (sticky \/ c % 2 = 1)
             IN  IF up /\ c + 1 = 16777216 THEN F32(8388608, e + 2)
                 ELSE F32(IF up THEN c + 1 ELSE c, e + 1)
      [] m >= 8388608 -> F32(m, e)
      [] m >= 65536 -> f32_nearest(2 * m, e - 1, sticky)
      [] m >= 256 -> f32_nearest(256 * m, e - 8, sticky)
      [] OTHER -> f32_nearest(65536 * m, e - 16, sticky)

\* `x as f32` of a u32.
f32_from_u32(n) == f32_nearest(n, 0, FALSE)

\* 3.6 as an f32 literal: 15099494 * 2^-22 = 3.5999999046...
F32_3_6 == F32(15099494, -22)

\* The quotient of two significands by long division: `steps` more bits
\* of r / den after the bits in q, and a last bit that tells a nonzero rest.
RECURSIVE f32_long_division(_, _, _, _)
f32_long_division(r, den, q, steps) ==
    CASE steps = 0 -> 2 * q + (IF r = 0 THEN 0 ELSE 1)
      [] steps >= 7 ->
             f32_long_division((128 * r) % den, den,
                               128 * q + (128 * r) \div den, steps - 7)
      [] OTHER ->
             f32_long_division((2 * r) % den, den,
                               2 * q + (2 * r) \div den, steps - 1)

\* a / b in f32, b positive: the exact quotient rounded to nearest.
f32_div(a, b) ==
    IF a.m = 0 THEN F32(0, 0)
    ELSE f32_nearest(f32_long_division(a.m % b.m, b.m, a.m \div b.m, 26),
                     a.e - b.e - 27, FALSE)

\* `x.round() as u32`: halves away from zero, saturating.
f32_round_as_u32(x) ==
    CASE x.m = 0 -> 0
      [] x.e > 7 -> U32Max
      [] x.e >= 0 -> x.m * Pow2(x.e)
      [] x.e < -24 -> 0
      [] OTHER -> (x.m + Pow2(-x.e - 1)) \div Pow2(-x.e)

\* Kmh::time: `(distance as f32 / (speed as f32 / 3.6)).round() as u32`;
\* a division by zero saturates in the cast to u32 (0/0 is NaN and casts to 0).
Kmh_time(speed, distance) ==
    IF speed = 0
    THEN (IF distance = 0 THEN 0 ELSE U32Max)
    ELSE f32_round_as_u32(
             f32_div(f32_from_u32(distance),
                     f32_div(f32_from_u32(speed), F32_3_6)))

(***************************************************************************)
(* osm/mod.rs: coordinates.  lat and lon are fixed-point, 10^-7 degree.    *)
(***************************************************************************)
\* Units of one grid cell: lat_rounded is round(lat * 1e-7 * 10.0).
CellUnits == 1000000

\* Units of one degree: Coordinates::from divides by 1e-7.
DegreeUnits == 10000000

\* Fixed-point units per metre on the ground (1e-7 degree is about 1/90 m).
UnitsPerMeter == 90

Coordinates_new(lat, lon) == [lat |-> lat, lon |-> lon]

RoundDiv(x, d) ==
    IF x >= 0 THEN (x + d \div 2) \div d ELSE -((-x + d \div 2) \div d)

lat_rounded(c) == RoundDiv(c.lat, CellUnits)

lon_rounded(c) == RoundDiv(c.lon, CellUnits)

\* Eq and Hash of Coordinates: the cell key.
CellKey(c) == <<lat_rounded(c), lon_rounded(c)>>

Coordinates_eq(a, b) == CellKey(a) = CellKey(b)

\* Coordinates::distance: the great-circle distance rounded to whole metres.
\* The haversine formula of the geo crate is modelled by a planar metric of
\* the same scale, with the same rounding to the nearest metre.
distance(a, b) ==
    RoundDiv(Abs(a.lat - b.lat) + Abs(a.lon - b.lon), UnitsPerMeter)

\* A way taken for oneway as soon as it carries the tag, whatever its value.
is_oneway_when_tagged(way) == way.oneway /= None

\* osm/mod.rs is_oneway: the tag is absent (None) or a string.
is_oneway(way) == IF way.oneway = None THEN FALSE ELSE Unwrap(way.oneway) = "yes"

(***************************************************************************)
(* graph/mod.rs: nodes and edges.                                          *)
(***************************************************************************)
Node_new(id, coordinates) == [id |-> id, coordinates |-> coordinates]

ChargingNode_new(id, coordinates, charging_options) ==
    [id |-> id, coordinates |-> coordinates,
     charging_options |-> charging_options]

Edge_new(source_index, target_index, transport, dist, max_speed) ==
    [source_index |-> source_index, target_index |-> target_index,
     transport |-> transport, distance |-> dist, max_speed |-> max_speed]

Edge_cost(edge, mode, routing) ==
    IF mode = "Car" /\ routing = "Time"
    THEN Kmh_time(edge.max_speed, edge.distance)
    ELSE edge.distance

\* Edge::time: the match panics for every mode but Car and Bike.
Edge_time_panics(mode) == mode \notin {"Car", "Bike"}

Edge_time(edge, mode) ==
    CASE mode = "Car" -> Kmh_time(edge.max_speed, edge.distance)
      [] mode = "Bike" -> Kmh_time(20, edge.distance)
      [] OTHER -> 0

\* Ord for Edge: by source_index, then target_index.
Edge_le(a, b) ==
    \/ a.source_index < b.source_index
    \/ (a.source_index = b.source_index /\ a.target_index <= b.target_index)

(***************************************************************************)
(* graph/grid.rs: the spatial grid.  cells maps a cell key to the indices  *)
(* of the nodes in that cell, in index order.                              *)
(***************************************************************************)
RECURSIVE create_loop(_, _, _)
create_loop(cells, nodes, i) ==
    IF i >= Len(nodes)
    THEN cells
    ELSE LET key == CellKey(At(nodes, i).coordinates)
         IN  IF key \in DOMAIN cells
             THEN create_loop([cells EXCEPT ![key] = Append(@, i)], nodes, i + 1)
             ELSE create_loop((key :> <<i>>) @@ cells, nodes, i + 1)

create(nodes) == create_loop(<<>>, nodes, 0)

(***************************************************************************)
(* osm/pbf.rs: the builder.  An OSM extract is a record                    *)
(*   [nodes: sequence of [id, lat, lon, amenity, car, bicycle],            *)
(*    ways:  sequence of [nodes, highway, maxspeed, oneway]]               *)
(* in file order; tags are Options.                                        *)
(***************************************************************************)
Pbf_new == [node_indices |-> <<>>, number_nodes |-> 0]

insert_node_id(pbf, id) ==
    IF id \in DOMAIN pbf.node_indices
    THEN pbf
    ELSE [node_indices |-> (id :> pbf.number_nodes) @@ pbf.node_indices,
          number_nodes |-> pbf.number_nodes + 1]

RECURSIVE parse_charging_stations_loop(_, _, _)
parse_charging_stations_loop(charging_nodes, osm_nodes, k) ==
    IF k > Len(osm_nodes)
    THEN charging_nodes
    ELSE LET osm_node == osm_nodes[k]
             coordinates == Coordinates_new(osm_node.lat, osm_node.lon)
             charging_options ==
                 CASE osm_node.car /\ osm_node.bicycle -> "CarBike"
                   [] osm_node.car -> "Car"
                   [] osm_node.bicycle -> "Bike"
                   [] OTHER -> "CarBike"
         IN  parse_charging_stations_loop(
                 IF osm_node.amenity
                 THEN Append(charging_nodes,
                             ChargingNode_new(osm_node.id, coordinates,
                                              charging_options))
                 ELSE charging_nodes,
                 osm_nodes, k + 1)

parse_charging_stations(osm_nodes) ==
    parse_charging_stations_loop(<<>>, osm_nodes, 1)

\* The inner loop of parse_ways, for i in 1..way.nodes.len(): one edge per
\* consecutive pair, preceded by its reverse when the way is not oneway.
RECURSIVE parse_way_nodes(_, _, _, _, _, _)
parse_way_nodes(st, way, transport, max_speed, oneway, i) ==
    IF i >= Len(way.nodes)
    THEN st
    ELSE LET source_id == At(way.nodes, i - 1)
             source_index == st.pbf.node_indices[source_id]
             target_id == At(way.nodes, i)
             pbf1 == insert_node_id(st.pbf, target_id)
             target_index == pbf1.node_indices[target_id]
             edge == Edge_new(source_index, target_index, transport, 0,
                              max_speed)
             reverse == [edge EXCEPT !.source_index = target_index,
                                     !.target_index = source_index]
             edges1 == IF ~oneway
                       THEN Append(Append(st.edges, reverse), edge)
                       ELSE Append(st.edges, edge)
         IN  parse_way_nodes([pbf |-> pbf1, edges |-> edges1], way, transport,
                             max_speed, oneway, i + 1)

parse_way(st, way) ==
    LET highway == Highway_from(way)
    IN  IF highway = None
        THEN st
        ELSE LET transport == Transport_from(Unwrap(highway))
                 max_speed == IF IsSome(Kmh_from(way))
                              THEN Unwrap(Kmh_from(way))
                              ELSE default_speed(Unwrap(highway))
                 pbf0 == insert_node_id(st.pbf, At(way.nodes, 0))
             IN  parse_way_nodes([pbf |-> pbf0, edges |-> st.edges], way,
                                 transport, max_speed, is_oneway(way), 1)

RECURSIVE parse_ways_loop(_, _, _)
parse_ways_loop(st, ways, k) ==
    IF k > Len(ways)
    THEN st
    ELSE parse_ways_loop(parse_way(st, ways[k]), ways, k + 1)

\* edges.sort(): a stable sort by Ord for Edge.
RECURSIVE sort_insert(_, _)
sort_insert(sorted, e) ==
    IF sorted = <<>>
    THEN <<e>>
    ELSE LET last == sorted[Len(sorted)]
             front == SubSeq(sorted, 1, Len(sorted) - 1)
         IN  IF Edge_le(last, e)
             THEN Append(sorted, e)
             ELSE Append(sort_insert(front, e), last)

\* The edges left in the order the ways emitted them.
sort_nothing(edges) == edges

RECURSIVE sort(_)
sort(edges) ==
    IF edges = <<>>
    THEN <<>>
    ELSE sort_insert(sort(SubSeq(edges, 1, Len(edges) - 1)),
                     edges[Len(edges)])

parse_ways(pbf, ways) ==
    LET st == parse_ways_loop([pbf |-> pbf, edges |-> <<>>], ways, 1)
    IN  [pbf |-> st.pbf, edges |-> sort(st.edges)]

\* parse_nodes: a StableVec, here a function from the filled slots to nodes.
RECURSIVE parse_nodes_loop(_, _, _, _)
parse_nodes_loop(nodes, pbf, osm_nodes, k) ==
    IF k > Len(osm_nodes)
    THEN nodes
    ELSE LET osm_node == osm_nodes[k]
             id == osm_node.id
         IN  IF id \in DOMAIN pbf.node_indices
             THEN LET index == pbf.node_indices[id]
                      node == Node_new(id, Coordinates_new(osm_node.lat,
                                                           osm_node.lon))
                  IN  parse_nodes_loop((index :> node) @@ nodes, pbf,
                                       osm_nodes, k + 1)
             ELSE parse_nodes_loop(nodes, pbf, osm_nodes, k + 1)

parse_nodes(pbf, osm_nodes) == parse_nodes_loop(<<>>, pbf, osm_nodes, 1)

\* Graph::new: the filled slots of the StableVec in index order, then the grid.
RECURSIVE compact(_, _)
compact(nodes, from) ==
    IF \A i \in DOMAIN nodes : i < from
    THEN <<>>
    ELSE IF from \in DOMAIN nodes
         THEN <<nodes[from]>> \o compact(nodes, from + 1)
         ELSE compact(nodes, from + 1)

Graph_new(nodes, offsets, edges, charging_nodes) ==
    LET vec == compact(nodes, 0)
    IN  [nodes |-> vec, edges |-> edges, offsets |-> offsets,
         cells |-> create(vec), charging_nodes |-> charging_nodes]

RECURSIVE count_offsets(_, _, _)
count_offsets(offsets, edges, k) ==
    IF k > Len(edges)
    THEN offsets
    ELSE count_offsets(
             [offsets EXCEPT ![edges[k].source_index + 2] = @ + 1],
             edges, k + 1)

RECURSIVE prefix_sum(_, _)
prefix_sum(offsets, i) ==
    IF i >= Len(offsets)
    THEN offsets
    ELSE prefix_sum([offsets EXCEPT ![i + 1] = @ + At(offsets, i - 1)], i + 1)

\* create_graph panics when an edge names a slot parse_nodes left empty.
create_graph_panics(nodes, edges) ==
    \E k \in 1..Len(edges) :
        \/ edges[k].source_index \notin DOMAIN nodes
        \/ edges[k].target_index \notin DOMAIN nodes

create_graph(pbf, nodes, edges, charging_nodes) ==
    LET offsets_len == Cardinality(DOMAIN pbf.node_indices) + 1
        measured == [k \in 1..Len(edges) |->
                        [edges[k] EXCEPT !.distance =
                            distance(nodes[edges[k].source_index].coordinates,
                                     nodes[edges[k].target_index].coordinates)]]
        offsets == prefix_sum(
                       count_offsets([i \in 1..offsets_len |-> 0], edges, 1), 1)
    IN  Graph_new(nodes, offsets, measured, charging_nodes)

\* Pbf::read: Some(graph), or None when the build panics.
read(osm) ==
    LET charging_stations == parse_charging_stations(osm.nodes)
        parsed == parse_ways(Pbf_new, osm.ways)
        nodes == parse_nodes(parsed.pbf, osm.nodes)
    IN  IF create_graph_panics(nodes, parsed.edges)
        THEN None
        ELSE Some(create_graph(parsed.pbf, nodes, parsed.edges,
                               charging_stations))

(***************************************************************************)
(* graph/mod.rs: the accessors of Graph.                                   *)
(***************************************************************************)
Graph_node(graph, index) == At(graph.nodes, index)

Graph_coordinates(graph, index) == Graph_node(graph, index).coordinates

\* Graph::edges: the slice edges[offsets[u]..offsets[u + 1]].
Graph_edges(graph, node_index) ==
    SubSeq(graph.edges, At(graph.offsets, node_index) + 1,
           At(graph.offsets, node_index + 1))

(***************************************************************************)
(* graph/grid.rs: the snap (nearest_neighbor).                             *)
(***************************************************************************)
Neighbor_new == [index |-> None, dist |-> U32Max]

\* closest without the any(..) over the out-edges.
matches_any(graph, i, mode) == TRUE

\* The any(..) of closest: some out-edge of node i admits the mode.
matches_mode(graph, i, mode) ==
    \E k \in 1..Len(Graph_edges(graph, i)) :
        Transport_contains(Graph_edges(graph, i)[k].transport, mode)

\* The inner loop of closest, over the indices of one cell.
RECURSIVE closest_in_cell(_, _, _, _, _, _)
closest_in_cell(graph, best, cell, k, coords, mode) ==
    IF k > Len(cell)
    THEN best
    ELSE LET i == cell[k]
             dist == distance(Graph_coordinates(graph, i), coords)
         IN  IF matches_mode(graph, i, mode) /\ dist < best.dist
             THEN closest_in_cell(graph, [index |-> Some(i), dist |-> dist],
                                  cell, k + 1, coords, mode)
             ELSE closest_in_cell(graph, best, cell, k + 1, coords, mode)

RECURSIVE closest_loop(_, _, _, _, _, _)
closest_loop(graph, best, cells, c, coords, mode) ==
    IF c > Len(cells)
    THEN best
    ELSE closest_loop(graph,
                      closest_in_cell(graph, best, cells[c], 1, coords, mode),
                      cells, c + 1, coords, mode)

closest(graph, cells, coords, mode) ==
    closest_loop(graph, Neighbor_new, cells, 1, coords, mode)

\* The key adjacent_cells looks up for the offsets (i, j): i and j are added
\* to the point's latitude and longitude in degrees.
adjacent_key(coords, i, j) ==
    CellKey(Coordinates_new(coords.lat + i * DegreeUnits,
                            coords.lon + j * DegreeUnits))

\* adjacent_cells: t runs over the (2 radius + 1)^2 pairs (i, j) in loop order.
RECURSIVE adjacent_cells_loop(_, _, _, _, _)
adjacent_cells_loop(graph, cells, coords, radius, t) ==
    LET side == 2 * radius + 1
        i == (t \div side) - radius
        j == (t % side) - radius
        key == adjacent_key(coords, i, j)
    IN  IF t >= side * side
        THEN cells
        ELSE IF Abs(i) /= radius /\ Abs(j) /= radius
             THEN adjacent_cells_loop(graph, cells, coords, radius, t + 1)
             ELSE IF key \notin DOMAIN graph.cells
                  THEN adjacent_cells_loop(graph, cells, coords, radius, t + 1)
                  ELSE adjacent_cells_loop(graph,
                                           Append(cells, graph.cells[key]),
                                           coords, radius, t + 1)

adjacent_cells(graph, coords, radius) ==
    adjacent_cells_loop(graph, <<>>, coords, radius, 0)

\* max_radius as i32, for `for radius in 1..max_radius as i32`.
max_radius(graph) == Cardinality(DOMAIN graph.cells) \div 10

\* The ring loop replacing the running best by every ring's best and never
\* breaking.
RECURSIVE nearest_neighbor_loop_replacing(_, _, _, _, _, _)
nearest_neighbor_loop_replacing(graph, coords, mode, best, radius, rings) ==
    IF radius >= max_radius(graph)
    THEN [best |-> best, rings |-> rings]
    ELSE nearest_neighbor_loop_replacing(
             graph, coords, mode,
             closest(graph, adjacent_cells(graph, coords, radius), coords, mode),
             radius + 1, Append(rings, radius))

\* The ring loop of nearest_neighbor; rings records the radii examined.
RECURSIVE nearest_neighbor_loop(_, _, _, _, _, _)
nearest_neighbor_loop(graph, coords, mode, best, radius, rings) ==
    IF radius >= max_radius(graph)
    THEN [best |-> best, rings |-> rings]
    ELSE LET adjacent == closest(graph, adjacent_cells(graph, coords, radius),
                                 coords, mode)
         IN  IF best.index = None \/ best.dist > adjacent.dist
             THEN nearest_neighbor_loop(graph, coords, mode, adjacent,
                                        radius + 1, Append(rings, radius))
             ELSE [best |-> best, rings |-> Append(rings, radius)]

ErrOffMap == "Couldn't locate point on map"

ErrNoMode == "No point matching transportation found"

\* nearest_neighbor taking an absent cell for an empty one and going on to
\* the rings.
nearest_neighbor_absent_as_empty(graph, coords, mode) ==
    LET exact_cell == IF CellKey(coords) \in DOMAIN graph.cells
                      THEN graph.cells[CellKey(coords)]
                      ELSE <<>>
        first == closest(graph, <<exact_cell>>, coords, mode)
        found == nearest_neighbor_loop(graph, coords, mode, first, 1, <<>>)
    IN  IF found.best.index = None
        THEN [ok |-> FALSE, index |-> 0, err |-> ErrNoMode,
              rings |-> found.rings]
        ELSE [ok |-> TRUE, index |-> Unwrap(found.best.index), err |-> "",
              rings |-> found.rings]

\* nearest_neighbor: [ok, index, err], and the radii of the rings examined.
nearest_neighbor(graph, coords, mode) ==
    IF CellKey(coords) \notin DOMAIN graph.cells
    THEN [ok |-> FALSE, index |-> 0, err |-> ErrOffMap, rings |-> <<>>]
    ELSE LET exact_cell == graph.cells[CellKey(coords)]
             first == closest(graph, <<exact_cell>>, coords, mode)
             found == nearest_neighbor_loop(graph, coords, mode, first, 1, <<>>)
         IN  IF found.best.index = None
             THEN [ok |-> FALSE, index |-> 0, err |-> ErrNoMode,
                   rings |-> found.rings]
             ELSE [ok |-> TRUE, index |-> Unwrap(found.best.index), err |-> "",
                   rings |-> found.rings]

(***************************************************************************)
(* The state.  graph is the published graph, request the body of the       *)
(* /shortest-path request being served.  The handler owns its locals; the  *)
(* router variables are the fields and locals of the Router that is        *)
(* currently alive (router, charging_router or goal_router).               *)
(***************************************************************************)
VARIABLES
    graph,                    \* Data<Graph>
    request,                  \* Json<Request>, ranges in km
    pc,                       \* where the handler stands
    current_range_in_meters,
    required_range,
    final_path,               \* Vec<Vec<Coordinates>>
    final_distance,
    final_time,
    visited_charging_coords,
    start,                    \* the handler's current start coordinates
    iter_count,
    rt,                       \* the first route
    response,                 \* the handler's answer
    mode,                     \* Router.mode
    routing,                  \* Router.routing
    queue,                    \* Router.queue: the entries of the heap
    cost,                     \* Router.cost
    prev,                     \* Router.prev: filled slots only
    state,                    \* Idle, Searching, Succeeded, Failed, Panicked
    start_index,              \* locals of Router::shortest_path
    goal_index,
    result,                   \* what the router's call returned
    snapped,                  \* the snaps of the call: <<start>> or <<start, goal>>
    searches,                 \* number of Router::shortest_path calls so far
    selections,               \* number of station selections so far
    legs,                     \* the legs driven since the first route
    call                      \* a call of a function outside any request

handler_vars ==
    <<pc, current_range_in_meters, required_range, final_path, final_distance,
      final_time, visited_charging_coords, start, iter_count, rt, response>>

router_vars ==
    <<mode, routing, queue, cost, prev, state, start_index, goal_index,
      result, snapped>>

vars ==
    <<graph, request, handler_vars, router_vars, searches, selections, legs,
      call>>

\* A call of a function: its name, its arguments and, once it has
\* returned, its value.
Call(fn, args, ret) == [fn |-> fn, args |-> args, ret |-> ret]

NoCall == Call("", <<>>, None)

\* The edges prev records from node v back to the start, goal side first.
RECURSIVE PrevChain(_, _)
PrevChain(v, fuel) ==
    IF v = start_index \/ v \notin DOMAIN prev \/ fuel = 0
    THEN <<>>
    ELSE <<prev[v]>> \o PrevChain(prev[v].source_index, fuel - 1)

RouteEdges == PrevChain(goal_index, Len(graph.nodes))

\* A leg the handler drove: the start it searched from, the route returned,
\* the edges of that route, and whether its path was stitched in.
Leg(kind, from, route, edges, kept) ==
    [kind |-> kind, from |-> from, route |-> route, edges |-> edges,
     kept |-> kept]

(***************************************************************************)
(* graph/router.rs                                                         *)
(***************************************************************************)
RouterNode_new(index, c, h) == [index |-> index, cost |-> c, heuristic |-> h]

priority(node) == node.cost + node.heuristic

Route_new(path, time, dist, visited_charging) ==
    [path |-> path, time |-> time, distance |-> dist,
     visited_charging |-> visited_charging]

NoRoute == Route_new(<<>>, 0, 0, None)

Ok(route) == [kind |-> "Ok", route |-> route, error |-> ""]

Err(error) == [kind |-> "Err", route |-> NoRoute, error |-> error]

Panic == [kind |-> "Panic", route |-> NoRoute, error |-> ""]

NoResult == [kind |-> "None", route |-> NoRoute, error |-> ""]

ErrStartIsGoal == "No path found, start is goal"

ErrNoPath == "No path found"

\* Router::heuristic
heuristic(g, m, r, from, to) ==
    IF m = "Car" /\ r = "Time"
    THEN 0
    ELSE distance(Graph_coordinates(g, from), Graph_coordinates(g, to))

\* The loop of backtrack_path.  Indexing an empty slot of prev panics, and so
\* does Edge::time for a mode other than Car and Bike.  fuel bounds the
\* unfolding: a chain that has not reached the start after one step per node
\* never will.
RECURSIVE backtrack_loop(_, _, _, _, _, _, _)
backtrack_loop(g, m, p, s_index, edge, route, fuel) ==
    IF fuel = 0
    THEN [kind |-> "Diverges", route |-> NoRoute, error |-> ""]
    ELSE IF Edge_time_panics(m)
         THEN Panic
         ELSE LET dist == route.distance + edge.distance
                  time == route.time + Edge_time(edge, m)
                  path == Append(route.path,
                                 Graph_coordinates(g, edge.target_index))
              IN  IF edge.source_index \notin DOMAIN p
                  THEN Panic
                  ELSE LET next == p[edge.source_index]
                       IN  IF next.source_index = s_index
                           THEN Ok(Route_new(
                                    Append(path, Graph_coordinates(
                                                     g, next.source_index)),
                                    time, dist, None))
                           ELSE backtrack_loop(g, m, p, s_index, next,
                                               Route_new(path, time, dist, None),
                                               fuel - 1)

backtrack_path(g, m, p, s_index, g_index) ==
    IF g_index \notin DOMAIN p
    THEN Panic
    ELSE backtrack_loop(g, m, p, s_index, p[g_index], NoRoute,
                        Len(g.nodes) + 1)

\* relax without the test of the edge's transport.
relax_unfiltered(g, m, r, g_index, node, edge, st) ==
    LET c == node.cost + Edge_cost(edge, m, r)
    IN  IF c < At(st.cost, edge.target_index)
        THEN LET next == RouterNode_new(edge.target_index, c,
                             heuristic(g, m, r, edge.target_index, g_index))
             IN  [queue |-> st.queue \cup {next},
                  cost |-> [st.cost EXCEPT ![next.index + 1] = next.cost],
                  prev |-> (next.index :> edge) @@ st.prev]
        ELSE st

\* relax without the test `cost < self.cost[edge.target_index]`.
relax_unconditional(g, m, r, g_index, node, edge, st) ==
    IF ~Transport_contains(edge.transport, m)
    THEN st
    ELSE LET c == node.cost + Edge_cost(edge, m, r)
             next == RouterNode_new(edge.target_index, c,
                         heuristic(g, m, r, edge.target_index, g_index))
         IN  IF c < U32Max /\ next \notin st.queue
             THEN [queue |-> st.queue \cup {next},
                   cost |-> [st.cost EXCEPT ![next.index + 1] = next.cost],
                   prev |-> (next.index :> edge) @@ st.prev]
             ELSE st

\* relax with `cost <= self.cost[edge.target_index]` for `<`.
relax_nonstrict(g, m, r, g_index, node, edge, st) ==
    IF ~Transport_contains(edge.transport, m)
    THEN st
    ELSE LET c == node.cost + Edge_cost(edge, m, r)
         IN  IF c <= At(st.cost, edge.target_index) /\ c < U32Max
             THEN LET next == RouterNode_new(edge.target_index, c,
                                  heuristic(g, m, r, edge.target_index, g_index))
                  IN  [queue |-> st.queue \cup {next},
                       cost |-> [st.cost EXCEPT ![next.index + 1] = next.cost],
                       prev |-> (next.index :> edge) @@ st.prev]
             ELSE st

\* The body of `for edge in self.graph.edges(node.index)`: st is the record
\* [queue, cost, prev] of the router's fields.
relax(g, m, r, g_index, node, edge, st) ==
    IF ~Transport_contains(edge.transport, m)
    THEN st
    ELSE LET c == node.cost + Edge_cost(edge, m, r)
         IN  IF c < At(st.cost, edge.target_index)
             THEN LET next == RouterNode_new(edge.target_index, c,
                                  heuristic(g, m, r, edge.target_index, g_index))
                  IN  [queue |-> st.queue \cup {next},
                       cost |-> [st.cost EXCEPT ![next.index + 1] = next.cost],
                       prev |-> (next.index :> edge) @@ st.prev]
             ELSE st

RECURSIVE relax_loop(_, _, _, _, _, _, _, _)
relax_loop(g, m, r, g_index, node, edges, k, st) ==
    IF k > Len(edges)
    THEN st
    ELSE relax_loop(g, m, r, g_index, node, edges, k + 1,
                    relax(g, m, r, g_index, node, edges[k], st))

\* A heap whose Ord is not reversed: pop gives an entry of greatest priority.
is_max_unreversed(node, q) == \A other \in q : priority(node) >= priority(other)

\* BinaryHeap::pop: an entry that is greatest by Ord for RouterNode, that
\* is, of least priority; which one among equals is the heap's business.
is_max(node, q) == \A other \in q : priority(node) <= priority(other)

\* One router for the whole request: made fresh by the first Router::new
\* and handed on, fields as they are, to every later search.
Router_reused(m, r) ==
    /\ mode' = m
    /\ routing' = r
    /\ queue' = IF state = "None" THEN {} ELSE queue
    /\ cost' = IF state = "None" THEN [i \in 1..Len(graph.nodes) |-> U32Max]
               ELSE cost
    /\ prev' = IF state = "None" THEN <<>> ELSE prev
    /\ state' = "Idle"
    /\ start_index' = 0
    /\ goal_index' = 0
    /\ result' = NoResult
    /\ snapped' = <<>>

\* Router::new
Router_new(m, r) ==
    /\ mode' = m
    /\ routing' = r
    /\ queue' = {}
    /\ cost' = [i \in 1..Len(graph.nodes) |-> U32Max]
    /\ prev' = <<>>
    /\ state' = "Idle"
    /\ start_index' = 0
    /\ goal_index' = 0
    /\ result' = NoResult
    /\ snapped' = <<>>

\* shortest_path without the test of the ids.
start_never_goal(g, s_index, g_index) == FALSE

\* `if start_id == goal_id`
start_is_goal(g, s_index, g_index) ==
    Graph_node(g, s_index).id = Graph_node(g, g_index).id

Snap(what, coords, res) == [what |-> what, coords |-> coords, res |-> res]

\* An early `return Err(..)` of shortest_path, before the search.
shortest_path_fails(error, snaps) ==
    /\ state' = "Failed"
    /\ result' = Err(error)
    /\ snapped' = snaps
    /\ UNCHANGED <<mode, routing, queue, cost, prev, start_index, goal_index>>

\* Router::shortest_path up to the loop: the snaps, the start-is-goal test
\* and the push of the start node.
shortest_path_enter(s, g, snaps) ==
    LET sn == nearest_neighbor(graph, s, mode)
        gn == nearest_neighbor(graph, g, mode)
        s_snaps == Append(snaps, Snap("start", s, sn))
        g_snaps == Append(s_snaps, Snap("goal", g, gn))
    IN  /\ searches' = searches + 1
        /\ IF ~sn.ok
           THEN shortest_path_fails(sn.err, s_snaps)
           ELSE IF ~gn.ok
                THEN shortest_path_fails(gn.err, g_snaps)
                ELSE IF start_is_goal(graph, sn.index, gn.index)
                     THEN shortest_path_fails(ErrStartIsGoal, g_snaps)
                     ELSE /\ cost' = [cost EXCEPT ![sn.index + 1] = 0]
                          /\ queue' = queue \cup {RouterNode_new(sn.index, 0, 0)}
                          /\ state' = "Searching"
                          /\ start_index' = sn.index
                          /\ goal_index' = gn.index
                          /\ snapped' = g_snaps
                          /\ UNCHANGED <<mode, routing, prev, result>>

\* Router::get_optimal_charging_station_coords: the loop over the registry.
\* best is [from_start, to_goal, coords]; 1.5 d < range is 3 d < 2 range.
RECURSIVE optimal_loop(_, _, _, _, _, _, _)
optimal_loop(g, required_charging, actual_start, actual_goal, current_range, best, k) ==
    IF k > Len(g.charging_nodes)
    THEN best
    ELSE LET charging_node == g.charging_nodes[k]
             dist_from_start == distance(actual_start, charging_node.coordinates)
             dist_to_goal == distance(actual_goal, charging_node.coordinates)
             chosen ==
                 /\ ChargingOptions_contains(charging_node.charging_options,
                                             required_charging)
                 /\ 3 * dist_from_start < 2 * current_range
                 /\ dist_from_start > best.from_start
                 /\ dist_to_goal < best.to_goal
         IN  optimal_loop(g, required_charging, actual_start, actual_goal,
                          current_range,
                          IF chosen
                          THEN [from_start |-> dist_from_start,
                                to_goal |-> dist_to_goal,
                                coords |-> charging_node.coordinates]
                          ELSE best,
                          k + 1)

get_optimal_charging_station_coords(g, m, actual_start, actual_goal, current_range) ==
    optimal_loop(g, ChargingOptions_from(m), actual_start, actual_goal,
                 current_range,
                 [from_start |-> 0, to_goal |-> U32Max, coords |-> actual_start],
                 1).coords

(***************************************************************************)
(* The steps of a Router.                                                  *)
(***************************************************************************)
\* router.shortest_path(start, goal) of the handler: the first search
\* (rest/mod.rs line 97) and the search from a station to the goal (line 145).
Router_shortest_path ==
    /\ state = "Idle"
    /\ pc \in {"First", "Goal"}
    /\ shortest_path_enter(IF pc = "First" THEN request.start ELSE start,
                           request.goal, <<>>)
    /\ UNCHANGED <<call, graph, request, handler_vars, selections, legs>>

\* Router::calc_route_with_charging_station
Router_calc_route_with_charging_station ==
    /\ state = "Idle"
    /\ pc = "Charging"
    /\ LET coords_of_chosen_charging ==
               get_optimal_charging_station_coords(
                   graph, mode, start, request.goal, current_range_in_meters)
           nn == nearest_neighbor(graph, coords_of_chosen_charging, mode)
           snaps == <<Snap("station", coords_of_chosen_charging, nn)>>
       IN  /\ selections' = selections + 1
           /\ IF ~nn.ok
              THEN /\ shortest_path_fails(nn.err, snaps)
                   /\ searches' = searches
              ELSE shortest_path_enter(
                       start, Graph_coordinates(graph, nn.index), snaps)
    /\ UNCHANGED <<call, graph, request, handler_vars, legs>>

\* One turn of `while let Some(node) = self.queue.pop()`.
Router_pop ==
    /\ state = "Searching"
    /\ \E node \in queue :
        /\ is_max(node, queue)
        /\ IF Graph_node(graph, node.index).id = Graph_node(graph, goal_index).id
           THEN LET back == backtrack_path(graph, mode, prev, start_index,
                                           node.index)
                IN  /\ queue' = queue \ {node}
                    /\ result' = back
                    /\ state' = IF back.kind = "Ok" THEN "Succeeded"
                                ELSE "Panicked"
                    /\ UNCHANGED <<cost, prev>>
           ELSE IF node.cost > At(cost, node.index)
                THEN /\ queue' = queue \ {node}
                     /\ UNCHANGED <<cost, prev, state, result>>
                ELSE LET st == relax_loop(graph, mode, routing, goal_index,
                                          node, Graph_edges(graph, node.index),
                                          1,
                                          [queue |-> queue \ {node},
                                           cost |-> cost, prev |-> prev])
                     IN  /\ queue' = st.queue
                         /\ cost' = st.cost
                         /\ prev' = st.prev
                         /\ UNCHANGED <<state, result>>
    /\ UNCHANGED <<call, graph, request, handler_vars, mode, routing, start_index,
                   goal_index, snapped, searches, selections, legs>>

\* The queue is empty: `Err("No path found")`.
Router_no_path ==
    /\ state = "Searching"
    /\ queue = {}
    /\ state' = "Failed"
    /\ result' = Err(ErrNoPath)
    /\ UNCHANGED <<call, graph, request, handler_vars, mode, routing, queue, cost,
                   prev, start_index, goal_index, snapped, searches,
                   selections, legs>>

(***************************************************************************)
(* rest/mod.rs: the /shortest-path handler.                                *)
(***************************************************************************)
\* The cap of the chaining loop: `if iter_count > 100`.
MaxIter == 100

ErrRanges == "Please enter reasonable ranges."

max_range_in_meters == request.max_range * 1000

\* The loop test with >= for >.
needs_charging_at_range(required, current) == required >= current

\* `while required_range > current_range_in_meters`
needs_charging(required, current) == required > current

\* The route after the loop: the stitched route when a station was visited,
\* the first route otherwise.
final_route(first, paths, time, dist, visited) ==
    LET RECURSIVE concat(_, _)
        concat(ps, k) == IF k = 0 THEN <<>> ELSE ps[k] \o concat(ps, k - 1)
    IN  IF Len(visited) > 0
        THEN Route_new(concat(paths, Len(paths)), time, dist, Some(visited))
        ELSE Route_new(first.path, first.time, first.distance, None)

\* The loop test, and either a new charging_router or the response.
loop_or_respond(required, current, first, paths, time, dist, visited) ==
    IF needs_charging(required, current)
    THEN /\ pc' = "Charging"
         /\ Router_new(request.transport, request.routing)
         /\ response' = response
    ELSE /\ pc' = "Done"
         /\ response' = Ok(final_route(first, paths, time, dist, visited))
         /\ UNCHANGED router_vars

\* The handler answering a failed search with the route stitched so far.
respond_partial(error) ==
    /\ pc' = "Done"
    /\ response' = Ok(final_route(rt, final_path, final_time, final_distance,
                                  visited_charging_coords))
    /\ UNCHANGED <<current_range_in_meters, required_range, final_path,
                   final_distance, final_time, visited_charging_coords, start,
                   iter_count, rt, router_vars>>

\* `return Err(Error(..))`
respond_error(error) ==
    /\ pc' = "Done"
    /\ response' = Err(error)
    /\ UNCHANGED <<current_range_in_meters, required_range, final_path,
                   final_distance, final_time, visited_charging_coords, start,
                   iter_count, rt, router_vars>>

\* The handler up to its first search: the router and the ranges.
handler_shortest_path ==
    /\ pc = "Idle"
    /\ pc' = "First"
    /\ Router_new(request.transport, request.routing)
    /\ current_range_in_meters' = request.current_range * 1000
    /\ UNCHANGED <<call, graph, request, required_range, final_path, final_distance,
                   final_time, visited_charging_coords, start, iter_count, rt,
                   response, searches, selections, legs>>

\* `match route` on the first search.
handler_first_route ==
    /\ pc = "First"
    /\ state \in {"Succeeded", "Failed"}
    /\ IF result.kind = "Err"
       THEN respond_error(result.error)
       ELSE /\ rt' = result.route
            /\ required_range' = result.route.distance
            /\ final_path' = <<>>
            /\ final_distance' = 0
            /\ final_time' = 0
            /\ visited_charging_coords' = <<>>
            /\ start' = request.start
            /\ iter_count' = 0
            /\ loop_or_respond(result.route.distance, current_range_in_meters,
                               result.route, <<>>, 0, 0, <<>>)
            /\ UNCHANGED current_range_in_meters
    /\ UNCHANGED <<call, graph, request, searches, selections, legs>>

\* The path of the leg to a station stitched in whole.
remove_nothing(path) == path

\* `rt_charging.path.remove(0)`
remove_first(path) == Tail(path)

\* The new start taken from the head of the list whatever the iteration.
next_start_first(visited, iter) == At(visited, 0)

\* `start = visited_charging_coords.get(iter_count).unwrap()`
next_start(visited, iter) == At(visited, iter)

\* `match route_to_charging`: the leg to the station is stitched in, the
\* vehicle recharged, and the goal_router created.
handler_route_to_charging ==
    /\ pc = "Charging"
    /\ state \in {"Succeeded", "Failed"}
    /\ IF result.kind = "Err"
       THEN /\ respond_error(result.error)
            /\ selections' = selections
            /\ legs' = legs
       ELSE LET rt_charging == result.route
                charging_coords ==
                    get_optimal_charging_station_coords(
                        graph, mode, start, request.goal,
                        current_range_in_meters)
            IN  /\ selections' = selections + 1
                /\ visited_charging_coords' =
                       Append(visited_charging_coords, charging_coords)
                /\ start' = next_start(visited_charging_coords', iter_count)
                /\ final_distance' = final_distance + rt_charging.distance
                /\ final_time' = final_time + rt_charging.time
                /\ current_range_in_meters' = max_range_in_meters
                /\ final_path' = Append(final_path,
                                         remove_first(rt_charging.path))
                /\ pc' = "Goal"
                /\ Router_new(request.transport, request.routing)
                /\ legs' = Append(legs, Leg("charging", start, rt_charging,
                                            RouteEdges, TRUE))
                /\ UNCHANGED <<required_range, iter_count, rt, response>>
    /\ UNCHANGED <<call, graph, request, searches>>

\* The totals with every goal leg added, in range or not.
add_always(within, total, amount) == total + amount

\* `final_distance += ..` and `final_time += ..` under
\* `if rt_goal.distance <= current_range_in_meters`.
add_within(within, total, amount) == IF within THEN total + amount ELSE total

\* `match route_to_goal`, the iteration guard and the loop test.
handler_route_to_goal ==
    /\ pc = "Goal"
    /\ state \in {"Succeeded", "Failed"}
    /\ IF result.kind = "Err"
       THEN respond_error(result.error) /\ legs' = legs
       ELSE LET rt_goal == result.route
                within == rt_goal.distance <= current_range_in_meters
                dist == add_within(within, final_distance, rt_goal.distance)
                time == add_within(within, final_time, rt_goal.time)
                paths == IF within THEN Append(final_path, rt_goal.path)
                         ELSE final_path
            IN  /\ legs' = Append(legs, Leg("goal", start, rt_goal, RouteEdges,
                                            within))
                /\ final_distance' = dist
                /\ final_time' = time
                /\ final_path' = paths
                /\ required_range' = rt_goal.distance
                /\ iter_count' = iter_count + 1
                /\ IF iter_count + 1 > MaxIter
                   THEN /\ pc' = "Done"
                        /\ response' = Err(ErrRanges)
                        /\ UNCHANGED router_vars
                   ELSE loop_or_respond(rt_goal.distance,
                                        current_range_in_meters, rt, paths,
                                        time, dist, visited_charging_coords)
                /\ UNCHANGED <<current_range_in_meters,
                               visited_charging_coords, start, rt>>
    /\ UNCHANGED <<call, graph, request, searches, selections>>

\* A panic of the router unwinds the handler: the request gets no answer.
handler_panic ==
    /\ pc \in {"First", "Charging", "Goal"}
    /\ state = "Panicked"
    /\ pc' = "Aborted"
    /\ UNCHANGED <<call, graph, request, current_range_in_meters, required_range,
                   final_path, final_distance, final_time,
                   visited_charging_coords, start, iter_count, rt, response,
                   router_vars, searches, selections, legs>>

(***************************************************************************)
(* The inputs.  An extract is drawn from one map: a town of seven          *)
(* junctions A..G in one grid cell, five charging stations, and a lattice  *)
(* of far junctions one degree apart, one per cell.  Its ways are at most  *)
(* MaxWays of the candidate ways, in file order.                           *)
(***************************************************************************)
\* Most ways of an extract.
MaxWays == 2

\* Junctions of the far lattice (with the town's cell: the cells of the grid).
NumFar == 19

\* Largest range of a request, in km.
MaxRangeKm == 1

\* The point north_m metres north and east_m metres east of junction A.
Point(north_m, east_m) ==
    Coordinates_new(487000000 + north_m * UnitsPerMeter,
                    91000000 + east_m * UnitsPerMeter)

\* The far junction k: k \div 4 degrees north and k % 4 degrees east of A.
FarPoint(k) ==
    Coordinates_new(487000000 + (k \div 4) * DegreeUnits,
                    91000000 + (k % 4) * DegreeUnits)

FarId(k) == 100 + k

OsmNode(id, c, amenity, car, bicycle) ==
    [id |-> id, lat |-> c.lat, lon |-> c.lon, amenity |-> amenity,
     car |-> car, bicycle |-> bicycle]

OsmNodes ==
    << OsmNode(1, Point(0, 0), FALSE, FALSE, FALSE),        \* A
       OsmNode(2, Point(300, 50), FALSE, FALSE, FALSE),     \* B
       OsmNode(3, Point(600, 0), FALSE, FALSE, FALSE),      \* C
       OsmNode(4, Point(1250, 0), FALSE, FALSE, FALSE),     \* D
       OsmNode(5, Point(1260, 0), FALSE, FALSE, FALSE),     \* E
       OsmNode(6, Point(3, 0), TRUE, FALSE, FALSE),         \* station at A
       OsmNode(7, Point(301, 50), TRUE, FALSE, TRUE),       \* station at B
       OsmNode(8, Point(600, 1), TRUE, TRUE, FALSE),        \* station at C
       OsmNode(9, Point(660, 0), TRUE, TRUE, FALSE),        \* station past C
       OsmNode(10, Point(1760, 0), FALSE, FALSE, FALSE),    \* F
       OsmNode(11, Point(2360, 0), FALSE, FALSE, FALSE),    \* G
       OsmNode(12, Point(1320, 0), TRUE, TRUE, FALSE) >>    \* station past E
    \o [k \in 1..NumFar |->
           OsmNode(FarId(k), FarPoint(k), FALSE, FALSE, FALSE)]

OsmWay(nodes, highway, maxspeed, oneway) ==
    [nodes |-> nodes, highway |-> highway, maxspeed |-> maxspeed,
     oneway |-> oneway]

CandidateWays ==
    << OsmWay(<<1, 2, 3, 4>>, Some("residential"), None, None),
       OsmWay(<<1, 3>>, Some("living_street"), None, Some("no")),
       OsmWay(<<1, 2>>, Some("motorway"), None, Some("yes")),
       OsmWay(<<3, 4, 5>>, Some("cycleway"), None, None),
       OsmWay(<<4, 5, 10, 11>>, Some("motorway"),
              Some([unit |-> "mph", value |-> 80]), None),
       OsmWay(<<2, 4>>, Some("primary"),
              Some([unit |-> "kmh", value |-> 80]), Some("yes")),
       OsmWay(<<5, 4, 2>>, Some("secondary"), None, Some("yes")),
       OsmWay([k \in 1..NumFar |-> FarId(k)], Some("tertiary"), None, None),
       OsmWay(<<4, FarId(1)>>, Some("secondary"), None, None) >>

\* The candidate ways chosen by W, in file order.
RECURSIVE ChosenWays(_, _)
ChosenWays(W, k) ==
    IF k > Len(CandidateWays)
    THEN <<>>
    ELSE (IF k \in W THEN <<CandidateWays[k]>> ELSE <<>>)
         \o ChosenWays(W, k + 1)

Extracts ==
    {[nodes |-> OsmNodes, ways |-> ChosenWays(W, 1)] :
        W \in {V \in SUBSET (1..Len(CandidateWays)) : Cardinality(V) <= MaxWays}}

\* Query points: beside A, beside G, in a far cell, and one degree south of
\* A, in a cell that holds no junction.
QueryPoints == {Point(3, 0), Point(2358, 0), FarPoint(1), FarPoint(-4)}

QueryModes == {"Car", "Bike", "CarBike"}

Requests ==
    [start : QueryPoints, goal : QueryPoints, transport : QueryModes,
     routing : Routing, current_range : 0..MaxRangeKm,
     max_range : 1..MaxRangeKm]

(***************************************************************************)
(* The specification: the server has built and published the graph and a   *)
(* request has arrived.                                                    *)
(***************************************************************************)
\* No request is being served and no router exists.
NoRequest ==
    /\ pc = "None"
    /\ current_range_in_meters = 0
    /\ required_range = 0
    /\ final_path = <<>>
    /\ final_distance = 0
    /\ final_time = 0
    /\ visited_charging_coords = <<>>
    /\ start = <<>>
    /\ iter_count = 0
    /\ rt = NoRoute
    /\ response = NoResult
    /\ mode = ""
    /\ routing = ""
    /\ queue = {}
    /\ cost = <<>>
    /\ prev = <<>>
    /\ state = "None"
    /\ start_index = 0
    /\ goal_index = 0
    /\ result = NoResult
    /\ snapped = <<>>
    /\ searches = 0
    /\ selections = 0
    /\ legs = <<>>

Init ==
    /\ \E osm \in Extracts :
        /\ read(osm) /= None
        /\ graph = Unwrap(read(osm))
    /\ request \in Requests
    /\ call = NoCall
    /\ pc = "Idle"
    /\ current_range_in_meters = 0
    /\ required_range = 0
    /\ final_path = <<>>
    /\ final_distance = 0
    /\ final_time = 0
    /\ visited_charging_coords = <<>>
    /\ start = request.start
    /\ iter_count = 0
    /\ rt = NoRoute
    /\ response = NoResult
    /\ mode = request.transport
    /\ routing = request.routing
    /\ queue = {}
    /\ cost = <<>>
    /\ prev = <<>>
    /\ state = "None"
    /\ start_index = 0
    /\ goal_index = 0
    /\ result = NoResult
    /\ snapped = <<>>
    /\ searches = 0
    /\ selections = 0
    /\ legs = <<>>

Next ==
    \/ handler_shortest_path
    \/ Router_shortest_path
    \/ Router_calc_route_with_charging_station
    \/ Router_pop
    \/ Router_no_path
    \/ handler_first_route
    \/ handler_route_to_charging
    \/ handler_route_to_goal
    \/ handler_panic

Spec == Init /\ [][Next]_vars

(***************************************************************************)
(* The mode algebra of osm/options.rs on its own: one call of a contains   *)
(* function on any two values of its enum.                                 *)
(***************************************************************************)
OptionsInit ==
    /\ graph = <<>>
    /\ request = <<>>
    /\ NoRequest
    /\ call \in {Call("Transport::contains", <<a, b>>, None) :
                     a \in Transport, b \in Transport}
               \cup {Call("Charging::contains", <<a, b>>, None) :
                        a \in ChargingOptions, b \in ChargingOptions}

Transport_contains_call ==
    /\ call.fn = "Transport::contains"
    /\ call.ret = None
    /\ call' = [call EXCEPT
                   !.ret = Some(Transport_contains(call.args[1], call.args[2]))]
    /\ UNCHANGED <<graph, request, handler_vars, router_vars, searches,
                   selections, legs>>

Charging_contains_call ==
    /\ call.fn = "Charging::contains"
    /\ call.ret = None
    /\ call' = [call EXCEPT
                   !.ret = Some(ChargingOptions_contains(call.args[1],
                                                         call.args[2]))]
    /\ UNCHANGED <<graph, request, handler_vars, router_vars, searches,
                   selections, legs>>

OptionsNext ==
    \/ Transport_contains_call
    \/ Charging_contains_call

OptionsSpec == OptionsInit /\ [][OptionsNext]_vars

(***************************************************************************)
(* Kmh::time of osm/highway.rs on its own: one call on a speed and a       *)
(* distance in metres.                                                     *)
(***************************************************************************)
\* Largest distance of the dense range of distances, in metres.
MaxDistance == 250

\* The default speeds, the bicycle's 20 km/h and some tagged speeds.
KmhSpeeds == {1, 4, 5, 20, 30, 50, 60, 100, 120}

\* Every short distance, and a few long ones up to 2^24 m.
KmhDistances == (0..MaxDistance) \cup {1000, 112361, 2038901, 16777215}

KmhInit ==
    /\ graph = <<>>
    /\ request = <<>>
    /\ NoRequest
    /\ call \in {Call("Kmh::time", <<s, d>>, None) :
                     s \in KmhSpeeds, d \in KmhDistances}

Kmh_time_call ==
    /\ call.fn = "Kmh::time"
    /\ call.ret = None
    /\ call' = [call EXCEPT
                   !.ret = Some(Kmh_time(call.args[1], call.args[2]))]
    /\ UNCHANGED <<graph, request, handler_vars, router_vars, searches,
                   selections, legs>>

KmhNext == Kmh_time_call

KmhSpec == KmhInit /\ [][KmhNext]_vars

(***************************************************************************)
(* The router's queue on its own, as in tests::min_priority_queue of       *)
(* graph/router.rs: a BinaryHeap<RouterNode> under any pushes and pops.    *)
(* `call` holds the last operation: the entry pushed, or the entry popped. *)
(***************************************************************************)
\* Most entries the queue holds at once.
MaxQueue == 3

\* Largest cost of an entry.
MaxCost == 3

QueueEntries ==
    {RouterNode_new(i, c, h) : i \in 0..1, c \in 0..MaxCost, h \in 0..1}

QueueInit ==
    /\ graph = <<>>
    /\ request = <<>>
    /\ NoRequest
    /\ call = NoCall

\* `queue.push(entry)`
BinaryHeap_push ==
    /\ Cardinality(queue) < MaxQueue
    /\ \E entry \in QueueEntries \ queue :
        /\ queue' = queue \cup {entry}
        /\ call' = Call("push", <<entry>>, None)
    /\ UNCHANGED <<graph, request, handler_vars, mode, routing, cost, prev,
                   state, start_index, goal_index, result, snapped, searches,
                   selections, legs>>

\* `queue.pop()`
BinaryHeap_pop ==
    /\ \E node \in queue :
        /\ is_max(node, queue)
        /\ queue' = queue \ {node}
        /\ call' = Call("pop", <<>>, Some(node))
    /\ UNCHANGED <<graph, request, handler_vars, mode, routing, cost, prev,
                   state, start_index, goal_index, result, snapped, searches,
                   selections, legs>>

QueueNext ==
    \/ BinaryHeap_push
    \/ BinaryHeap_pop

QueueSpec == QueueInit /\ [][QueueNext]_vars

(***************************************************************************)
(* The build on its own: Pbf::read of an extract, before any request.      *)
(* The extract is the argument of the call; the graph is published in      *)
(* `graph` when the build returns, and not at all when it panics.           *)
(***************************************************************************)
\* Most ways of an extract of the build.
MaxBuildWays == 2

\* Most nodes the ways name that the node stream lacks.
MaxAbsent == 1

\* Five nodes: the corners of a square of 100 m, and a node a third of a
\* metre from the first.
BuildNodes ==
    << OsmNode(1, Point(0, 0), FALSE, FALSE, FALSE),
       OsmNode(2, Point(100, 0), FALSE, FALSE, FALSE),
       OsmNode(3, Point(100, 100), TRUE, TRUE, FALSE),
       OsmNode(4, Point(0, 100), FALSE, FALSE, FALSE),
       OsmNode(5, Coordinates_new(487000030, 91000000), FALSE, FALSE, FALSE) >>

\* The ways: of one node, two-way, oneway, without a highway tag, between
\* nodes less than half a metre apart, and through a node twice.
BuildWays ==
    << OsmWay(<<4>>, Some("service"), None, None),
       OsmWay(<<1, 2, 3>>, Some("residential"), None, None),
       OsmWay(<<3, 1>>, Some("primary"),
              Some([unit |-> "kmh", value |-> 50]), Some("yes")),
       OsmWay(<<2, 4>>, None, None, None),
       OsmWay(<<1, 5>>, Some("cycleway"), None, Some("no")),
       OsmWay(<<2, 1>>, Some("motorway"), None, Some("yes")),
       OsmWay(<<4, 3, 4>>, Some("track"), None, None) >>

\* The elements of seq at the positions in K, in order.
RECURSIVE Chosen(_, _, _)
Chosen(seq, K, k) ==
    IF k > Len(seq) THEN <<>>
    ELSE (IF k \in K THEN <<seq[k]>> ELSE <<>>) \o Chosen(seq, K, k + 1)

BuildExtracts ==
    {[nodes |-> Chosen(BuildNodes, (1..Len(BuildNodes)) \ A, 1),
      ways |-> Chosen(BuildWays, W, 1)] :
        A \in {V \in SUBSET (1..Len(BuildNodes)) : Cardinality(V) <= MaxAbsent},
        W \in {V \in SUBSET (1..Len(BuildWays)) :
                   Cardinality(V) <= MaxBuildWays}}

BuildInit ==
    /\ graph = <<>>
    /\ request = <<>>
    /\ NoRequest
    /\ call \in {Call("Pbf::read", <<osm>>, None) : osm \in BuildExtracts}

\* Pbf::read and the publication of its graph.
Pbf_read ==
    /\ call.fn = "Pbf::read"
    /\ call.ret = None
    /\ LET built == read(call.args[1])
       IN  IF built = None
           THEN /\ call' = [call EXCEPT !.ret = Some("Panic")]
                /\ graph' = graph
           ELSE /\ call' = [call EXCEPT !.ret = Some("Ok")]
                /\ graph' = Unwrap(built)
    /\ UNCHANGED <<request, handler_vars, router_vars, searches, selections,
                   legs>>

BuildNext == Pbf_read

BuildSpec == BuildInit /\ [][BuildNext]_vars

(***************************************************************************)
(* Concurrent queries.  The server shares one graph (Data<Graph>) among    *)
(* its workers; every query builds its own Router.  Two queries run their  *)
(* shortest_path step by step in any interleaving.  Here the router        *)
(* variables hold one value per router, request one query per worker, pc   *)
(* where each worker stands and response what its call returned.  The      *)
(* queue of a router is the Vec of its BinaryHeap, in the heap's order.    *)
(***************************************************************************)
\* Ord for RouterNode, reversed on the priority: a <= b.
RouterNode_le(a, b) == priority(b) <= priority(a)

\* BinaryHeap::sift_up: the element of the hole at pos climbs while it is
\* greater than its parent.
RECURSIVE sift_up(_, _, _, _)
sift_up(data, start_pos, pos, element) ==
    LET parent == (pos - 1) \div 2
    IN  IF pos > start_pos /\ ~RouterNode_le(element, At(data, parent))
        THEN sift_up([data EXCEPT ![pos + 1] = At(data, parent)], start_pos,
                     parent, element)
        ELSE [data EXCEPT ![pos + 1] = element]

\* BinaryHeap::push
heap_push(data, item) == sift_up(Append(data, item), 0, Len(data), item)

\* BinaryHeap::sift_down_to_bottom: the hole goes down to a leaf along the
\* greater children, the right one when the two are equal, and the element
\* climbs back from there.
RECURSIVE sift_down_to_bottom(_, _, _)
sift_down_to_bottom(data, pos, element) ==
    LET end == Len(data)
        child == 2 * pos + 1
        right == child + 1
        down == IF right < end /\ RouterNode_le(At(data, child), At(data, right))
                THEN right
                ELSE child
    IN  IF child < end
        THEN sift_down_to_bottom([data EXCEPT ![pos + 1] = At(data, down)],
                                 down, element)
        ELSE sift_up(data, 0, pos, element)

\* BinaryHeap::pop of a heap that is not empty: the last element takes the
\* place of the root, which is returned.
heap_pop(data) ==
    LET item == data[Len(data)]
        rest == SubSeq(data, 1, Len(data) - 1)
    IN  IF rest = <<>>
        THEN [node |-> item, queue |-> <<>>]
        ELSE [node |-> rest[1], queue |-> sift_down_to_bottom(rest, 0, item)]

\* The queue without its k-th element.
Without(data, k) == SubSeq(data, 1, k - 1) \o SubSeq(data, k + 1, Len(data))

\* A pop that returns any of the entries of least priority.
pop_any_least(data) ==
    {[node |-> data[k], queue |-> Without(data, k)] :
        k \in {j \in 1..Len(data) :
                  \A i \in 1..Len(data) : RouterNode_le(data[i], data[j])}}

\* `self.queue.pop()`: what the pop may return.
pop(data) == {heap_pop(data)}

\* Router::new: the fields of a fresh router.
Router_fields(g) ==
    [queue |-> <<>>, cost |-> [i \in 1..Len(g.nodes) |-> U32Max],
     prev |-> <<>>]

\* `for edge in self.graph.edges(node.index)` with the queue a heap: each
\* edge relaxes as in relax, and the entry it makes is pushed.
RECURSIVE heap_relax_loop(_, _, _, _, _, _, _, _)
heap_relax_loop(g, m, r, g_index, node, edges, k, st) ==
    IF k > Len(edges)
    THEN st
    ELSE LET made == relax(g, m, r, g_index, node, edges[k],
                           [queue |-> {}, cost |-> st.cost, prev |-> st.prev])
             pushed == IF made.queue = {}
                       THEN st.queue
                       ELSE heap_push(st.queue,
                                      CHOOSE next \in made.queue : TRUE)
         IN  heap_relax_loop(g, m, r, g_index, node, edges, k + 1,
                             [queue |-> pushed, cost |-> made.cost,
                              prev |-> made.prev])

\* One turn of `while let Some(node) = self.queue.pop()`, the pop having
\* returned popped.node and left popped.queue: the result when the turn
\* returns one, and the fields after the turn.
shortest_path_turn(g, m, r, s_index, g_index, st, popped) ==
    LET node == popped.node
        after == [st EXCEPT !.queue = popped.queue]
    IN  IF Graph_node(g, node.index).id = Graph_node(g, g_index).id
        THEN [returns |-> TRUE,
              result |-> backtrack_path(g, m, st.prev, s_index, node.index),
              st |-> after]
        ELSE IF node.cost > At(st.cost, node.index)
             THEN [returns |-> FALSE, result |-> NoResult, st |-> after]
             ELSE [returns |-> FALSE, result |-> NoResult,
                   st |-> heap_relax_loop(g, m, r, g_index, node,
                                          Graph_edges(g, node.index), 1, after)]

\* The loop of Router::shortest_path run to its end on one router.
RECURSIVE shortest_path_loop(_, _, _, _, _, _)
shortest_path_loop(g, m, r, s_index, g_index, st) ==
    IF st.queue = <<>>
    THEN Err(ErrNoPath)
    ELSE LET turn == shortest_path_turn(g, m, r, s_index, g_index, st,
                                        heap_pop(st.queue))
         IN  IF turn.returns
             THEN turn.result
             ELSE shortest_path_loop(g, m, r, s_index, g_index, turn.st)

\* Router::new(graph, transport, routing).shortest_path(start, goal) run
\* alone, from the first line to the return.
shortest_path_alone(g, query) ==
    LET m == query.transport
        sn == nearest_neighbor(g, query.start, m)
        gn == nearest_neighbor(g, query.goal, m)
        st == Router_fields(g)
    IN  IF ~sn.ok THEN Err(sn.err)
        ELSE IF ~gn.ok THEN Err(gn.err)
        ELSE IF start_is_goal(g, sn.index, gn.index) THEN Err(ErrStartIsGoal)
        ELSE shortest_path_loop(
                 g, m, query.routing, sn.index, gn.index,
                 [st EXCEPT !.cost[sn.index + 1] = 0,
                            !.queue = heap_push(st.queue,
                                          RouterNode_new(sn.index, 0, 0))])

\* The number of queries in flight.
NumWorkers == 2

Workers == 1..NumWorkers

\* Every query works on the one router of worker 1.
router_shared(q) == 1

\* The router of query q: the handler makes its own with Router::new.
router_of(q) == q

\* Six junctions on a grid of 100 m: 1 - 2, and from 2 two ways round a
\* square to 6, of equal length.
ConcurrentNodes ==
    << OsmNode(1, Point(0, 0), FALSE, FALSE, FALSE),
       OsmNode(2, Point(0, 100), FALSE, FALSE, FALSE),
       OsmNode(3, Point(0, 200), FALSE, FALSE, FALSE),
       OsmNode(5, Point(100, 100), FALSE, FALSE, FALSE),
       OsmNode(6, Point(100, 200), FALSE, FALSE, FALSE) >>

ConcurrentExtracts ==
    { [nodes |-> ConcurrentNodes,
       ways |-> << OsmWay(<<1, 2>>, Some("residential"), None, None),
                   OsmWay(<<2, 3, 6>>, Some("residential"), None, None),
                   OsmWay(<<2, 5, 6>>, Some("residential"), None, None) >>],
      [nodes |-> ConcurrentNodes,
       ways |-> << OsmWay(<<1, 2>>, Some("residential"), None, None),
                   OsmWay(<<2, 5, 6>>, Some("cycleway"), None, None),
                   OsmWay(<<2, 3, 6>>, Some("primary"), None, Some("yes")) >>] }

Queries ==
    [start : {Point(0, 0), Point(100, 200)},
     goal : {Point(100, 200), Point(0, 100)},
     transport : {"Car", "Bike"},
     routing : {"Distance", "Time"}]

ConcurrentInit ==
    /\ graph \in {Unwrap(read(osm)) : osm \in ConcurrentExtracts}
    /\ request \in [Workers -> Queries]
    /\ call = NoCall
    /\ pc = [q \in Workers |-> "New"]
    /\ response = [q \in Workers |-> NoResult]
    /\ mode = [r \in Workers |-> ""]
    /\ routing = [r \in Workers |-> ""]
    /\ queue = [r \in Workers |-> <<>>]
    /\ cost = [r \in Workers |-> <<>>]
    /\ prev = [r \in Workers |-> <<>>]
    /\ state = [r \in Workers |-> "None"]
    /\ start_index = [r \in Workers |-> 0]
    /\ goal_index = [r \in Workers |-> 0]
    /\ current_range_in_meters = 0
    /\ required_range = 0
    /\ final_path = <<>>
    /\ final_distance = 0
    /\ final_time = 0
    /\ visited_charging_coords = <<>>
    /\ start = <<>>
    /\ iter_count = 0
    /\ rt = NoRoute
    /\ result = NoResult
    /\ snapped = <<>>
    /\ searches = 0
    /\ selections = 0
    /\ legs = <<>>

concurrent_unchanged ==
    UNCHANGED <<graph, request, call, current_range_in_meters, required_range,
                final_path, final_distance, final_time,
                visited_charging_coords, start, iter_count, rt, result,
                snapped, searches, selections, legs>>

\* `let mut router = Router::new(state.get_ref(), transport, routing)`
Worker_Router_new(q) ==
    LET r == router_of(q)
        fields == Router_fields(graph)
    IN  /\ pc[q] = "New"
        /\ pc' = [pc EXCEPT ![q] = "Call"]
        /\ mode' = [mode EXCEPT ![r] = request[q].transport]
        /\ routing' = [routing EXCEPT ![r] = request[q].routing]
        /\ queue' = [queue EXCEPT ![r] = fields.queue]
        /\ cost' = [cost EXCEPT ![r] = fields.cost]
        /\ prev' = [prev EXCEPT ![r] = fields.prev]
        /\ state' = [state EXCEPT ![r] = "Idle"]
        /\ UNCHANGED <<response, start_index, goal_index>>
        /\ concurrent_unchanged

\* router.shortest_path(start, goal) up to the loop.
Worker_shortest_path(q) ==
    LET r == router_of(q)
        sn == nearest_neighbor(graph, request[q].start, mode[r])
        gn == nearest_neighbor(graph, request[q].goal, mode[r])
        error == CASE ~sn.ok -> sn.err
                   [] ~gn.ok -> gn.err
                   [] start_is_goal(graph, sn.index, gn.index) -> ErrStartIsGoal
                   [] OTHER -> ""
    IN  /\ pc[q] = "Call"
        /\ IF error /= ""
           THEN /\ pc' = [pc EXCEPT ![q] = "Done"]
                /\ response' = [response EXCEPT ![q] = Err(error)]
                /\ state' = [state EXCEPT ![r] = "Failed"]
                /\ UNCHANGED <<queue, cost, start_index, goal_index>>
           ELSE /\ pc' = [pc EXCEPT ![q] = "Search"]
                /\ cost' = [cost EXCEPT ![r][sn.index + 1] = 0]
                /\ queue' = [queue EXCEPT
                                ![r] = heap_push(@, RouterNode_new(sn.index, 0, 0))]
                /\ state' = [state EXCEPT ![r] = "Searching"]
                /\ start_index' = [start_index EXCEPT ![r] = sn.index]
                /\ goal_index' = [goal_index EXCEPT ![r] = gn.index]
                /\ UNCHANGED response
        /\ UNCHANGED <<mode, routing, prev>>
        /\ concurrent_unchanged

\* One turn of the loop of query q.
Worker_pop(q) ==
    LET r == router_of(q)
    IN  /\ pc[q] = "Search"
        /\ queue[r] /= <<>>
        /\ \E popped \in pop(queue[r]) :
              LET turn == shortest_path_turn(
                              graph, mode[r], routing[r], start_index[r],
                              goal_index[r],
                              [queue |-> queue[r], cost |-> cost[r],
                               prev |-> prev[r]],
                              popped)
              IN  /\ queue' = [queue EXCEPT ![r] = turn.st.queue]
                  /\ cost' = [cost EXCEPT ![r] = turn.st.cost]
                  /\ prev' = [prev EXCEPT ![r] = turn.st.prev]
                  /\ IF turn.returns
                     THEN /\ pc' = [pc EXCEPT ![q] = "Done"]
                          /\ response' = [response EXCEPT ![q] = turn.result]
                          /\ state' = [state EXCEPT
                                          ![r] = IF turn.result.kind = "Ok"
                                                 THEN "Succeeded"
                                                 ELSE "Panicked"]
                     ELSE UNCHANGED <<pc, response, state>>
        /\ UNCHANGED <<mode, routing, start_index, goal_index>>
        /\ concurrent_unchanged

\* The queue of query q is empty: `Err("No path found")`.
Worker_no_path(q) ==
    LET r == router_of(q)
    IN  /\ pc[q] = "Search"
        /\ queue[r] = <<>>
        /\ pc' = [pc EXCEPT ![q] = "Done"]
        /\ response' = [response EXCEPT ![q] = Err(ErrNoPath)]
        /\ state' = [state EXCEPT ![r] = "Failed"]
        /\ UNCHANGED <<mode, routing, queue, cost, prev, start_index,
                       goal_index>>
        /\ concurrent_unchanged

ConcurrentNext ==
    \E q \in Workers :
        \/ Worker_Router_new(q)
        \/ Worker_shortest_path(q)
        \/ Worker_pop(q)
        \/ Worker_no_path(q)

ConcurrentSpec == ConcurrentInit /\ [][ConcurrentNext]_vars

(***************************************************************************)
(* One search on a street mapped in detail: Router::shortest_path on a     *)
(* router just made, over junctions a metre or so apart on one line.       *)
(***************************************************************************)
\* Most ways of an extract of the street.
MaxStreetWays == 2

\* The junction `units` ten-millionths of a degree from the first, along
\* the lon field.
StreetPoint(units) == Coordinates_new(487000000, 91000000 + units)

\* Seven junctions, at 0 m, 8.1 m, 10.6 m, 12 m, 13.4 m, 14.8 m and 16.2 m.
StreetNodes ==
    << OsmNode(1, StreetPoint(0), FALSE, FALSE, FALSE),
       OsmNode(2, StreetPoint(729), FALSE, FALSE, FALSE),
       OsmNode(3, StreetPoint(954), FALSE, FALSE, FALSE),
       OsmNode(4, StreetPoint(1080), FALSE, FALSE, FALSE),
       OsmNode(5, StreetPoint(1206), FALSE, FALSE, FALSE),
       OsmNode(6, StreetPoint(1332), FALSE, FALSE, FALSE),
       OsmNode(7, StreetPoint(1458), FALSE, FALSE, FALSE) >>

\* A carriageway through the junction at 8.1 m, a oneway lane through the
\* five others, and a oneway link between the two.
StreetWays ==
    << OsmWay(<<1, 2, 7>>, Some("residential"), None, None),
       OsmWay(<<1, 3, 4, 5, 6, 7>>, Some("living_street"), None,
              Some("yes")),
       OsmWay(<<2, 3>>, Some("service"), None, Some("yes")) >>

StreetExtracts ==
    {[nodes |-> StreetNodes, ways |-> Chosen(StreetWays, W, 1)] :
        W \in {V \in SUBSET (1..Len(StreetWays)) :
                   V /= {} /\ Cardinality(V) <= MaxStreetWays}}

StreetRequests ==
    [start : {StreetPoint(0), StreetPoint(954)},
     goal : {StreetPoint(1458), StreetPoint(1206), StreetPoint(0)},
     transport : {"Car", "Bike"},
     routing : {"Distance", "Time"},
     current_range : {1},
     max_range : {1}]

\* The handler has made its router and is about to call shortest_path.
StreetInit ==
    /\ graph \in {Unwrap(read(osm)) : osm \in StreetExtracts}
    /\ request \in StreetRequests
    /\ call = NoCall
    /\ pc = "First"
    /\ current_range_in_meters = request.current_range * 1000
    /\ required_range = 0
    /\ final_path = <<>>
    /\ final_distance = 0
    /\ final_time = 0
    /\ visited_charging_coords = <<>>
    /\ start = request.start
    /\ iter_count = 0
    /\ rt = NoRoute
    /\ response = NoResult
    /\ mode = request.transport
    /\ routing = request.routing
    /\ queue = {}
    /\ cost = [i \in 1..Len(graph.nodes) |-> U32Max]
    /\ prev = <<>>
    /\ state = "Idle"
    /\ start_index = 0
    /\ goal_index = 0
    /\ result = NoResult
    /\ snapped = <<>>
    /\ searches = 0
    /\ selections = 0
    /\ legs = <<>>

StreetNext ==
    \/ Router_shortest_path
    \/ Router_pop
    \/ Router_no_path

StreetSpec == StreetInit /\ [][StreetNext]_vars

(***************************************************************************)
(* Requests that chain through a station on a map whose legs can fail: a   *)
(* trunk road S-A-P-G-I-H that winds, longer than the range, branch ways   *)
(* west of S and across the boundary of the grid cell, and one station.    *)
(***************************************************************************)
\* Most branch ways of an extract, beside the trunk road.
MaxBranches == 1

\* The point north_m metres north and east_m metres east of junction S,
\* which lies 10,000 units south of the boundary between two grid cells.
ChainPoint(north_m, east_m) ==
    Coordinates_new(487490000 + north_m * UnitsPerMeter,
                    91000000 + east_m * UnitsPerMeter)

ChainJunctions ==
    << OsmNode(1, ChainPoint(0, 0), FALSE, FALSE, FALSE),       \* S
       OsmNode(2, ChainPoint(0, 10), FALSE, FALSE, FALSE),      \* A
       OsmNode(3, ChainPoint(100, 700), FALSE, FALSE, FALSE),   \* P
       OsmNode(4, ChainPoint(0, 300), FALSE, FALSE, FALSE),     \* G
       OsmNode(5, ChainPoint(0, -200), FALSE, FALSE, FALSE),    \* U
       OsmNode(6, ChainPoint(0, -400), FALSE, FALSE, FALSE),    \* T
       OsmNode(7, ChainPoint(0, -410), FALSE, FALSE, FALSE),    \* V
       OsmNode(8, ChainPoint(210, 0), FALSE, FALSE, FALSE),     \* X, next cell
       OsmNode(9, ChainPoint(220, 0), FALSE, FALSE, FALSE),     \* Y, next cell
       OsmNode(10, ChainPoint(0, 350), FALSE, FALSE, FALSE),    \* I
       OsmNode(11, ChainPoint(0, 400), FALSE, FALSE, FALSE) >>  \* H

\* The station of an extract: at G, at T, or across the cell boundary.
ChainStations ==
    << OsmNode(20, ChainPoint(1, 300), TRUE, TRUE, TRUE),
       OsmNode(21, ChainPoint(1, -400), TRUE, TRUE, TRUE),
       OsmNode(22, ChainPoint(200, 0), TRUE, TRUE, TRUE) >>

ChainTrunk == OsmWay(<<1, 2, 3, 4, 10, 11>>, Some("residential"), None, None)

ChainBranches ==
    << OsmWay(<<1, 5, 6, 7>>, Some("residential"), None, Some("yes")),
       OsmWay(<<6, 7>>, Some("residential"), None, None),
       OsmWay(<<8, 9>>, Some("cycleway"), None, None) >>

ChainExtracts ==
    {[nodes |-> Append(ChainJunctions, ChainStations[s]),
      ways |-> <<ChainTrunk>> \o Chosen(ChainBranches, W, 1)] :
        s \in 1..Len(ChainStations),
        W \in {V \in SUBSET (1..Len(ChainBranches)) :
                   Cardinality(V) <= MaxBranches}}

ChainRequests ==
    [start : {ChainPoint(0, 0)},
     goal : {ChainPoint(0, 300), ChainPoint(0, 400), ChainPoint(0, 10)},
     transport : {"Car", "Bike"},
     routing : {"Distance", "Time"},
     current_range : {1},
     max_range : {1}]

ChainInit ==
    /\ graph \in {Unwrap(read(osm)) : osm \in ChainExtracts}
    /\ request \in ChainRequests
    /\ call = NoCall
    /\ pc = "Idle"
    /\ current_range_in_meters = 0
    /\ required_range = 0
    /\ final_path = <<>>
    /\ final_distance = 0
    /\ final_time = 0
    /\ visited_charging_coords = <<>>
    /\ start = request.start
    /\ iter_count = 0
    /\ rt = NoRoute
    /\ response = NoResult
    /\ mode = request.transport
    /\ routing = request.routing
    /\ queue = {}
    /\ cost = <<>>
    /\ prev = <<>>
    /\ state = "None"
    /\ start_index = 0
    /\ goal_index = 0
    /\ result = NoResult
    /\ snapped = <<>>
    /\ searches = 0
    /\ selections = 0
    /\ legs = <<>>

ChainNext ==
    \/ handler_shortest_path
    \/ Router_shortest_path
    \/ Router_calc_route_with_charging_station
    \/ Router_pop
    \/ Router_no_path
    \/ handler_first_route
    \/ handler_route_to_charging
    \/ handler_route_to_goal
    \/ handler_panic

ChainSpec == ChainInit /\ [][ChainNext]_vars

(***************************************************************************)
(* Reference definitions for the properties.                               *)
(***************************************************************************)
NodeIndices == 0..(Len(graph.nodes) - 1)

\* The edges of the graph a query in mode m may use.
Permitted(m) ==
    {graph.edges[k] : k \in {j \in 1..Len(graph.edges) :
                                Transport_contains(graph.edges[j].transport, m)}}

\* The nodes reachable from the nodes of S over permitted edges.
RECURSIVE ReachableFrom(_, _)
ReachableFrom(S, m) ==
    LET T == S \cup {e.target_index : e \in {d \in Permitted(m) :
                                                d.source_index \in S}}
    IN  IF T = S THEN S ELSE ReachableFrom(T, m)

\* One round of Bellman-Ford over the edge array from position k: d[v + 1]
\* is the least cost known of a permitted path from the start to node v,
\* U32Max when none is known.
RECURSIVE RelaxEvery(_, _, _, _)
RelaxEvery(d, m, r, k) ==
    IF k > Len(graph.edges)
    THEN d
    ELSE LET e == graph.edges[k]
             c == At(d, e.source_index) + Edge_cost(e, m, r)
         IN  IF /\ Transport_contains(e.transport, m)
                /\ At(d, e.source_index) < U32Max
                /\ c < At(d, e.target_index)
             THEN RelaxEvery([d EXCEPT ![e.target_index + 1] = c], m, r, k + 1)
             ELSE RelaxEvery(d, m, r, k + 1)

RECURSIVE LeastCosts(_, _, _, _)
LeastCosts(d, m, r, rounds) ==
    IF rounds = 0
    THEN d
    ELSE LET next == RelaxEvery(d, m, r, 1)
         IN  IF next = d THEN d ELSE LeastCosts(next, m, r, rounds - 1)

\* Least summed edge cost of a permitted path from s to t; U32Max: no path.
LeastCost(s, t, m, r) ==
    At(LeastCosts([v \in 1..Len(graph.nodes) |-> IF v = s + 1 THEN 0 ELSE U32Max],
                  m, r, Len(graph.nodes)), t)

RECURSIVE SumOver(_, _, _)
SumOver(F(_), seq, k) ==
    IF k > Len(seq) THEN 0 ELSE F(seq[k]) + SumOver(F, seq, k + 1)

EdgeDistance(e) == e.distance

EdgeCostNow(e) == Edge_cost(e, mode, routing)

\* The snap of the current call made for `what` (station, start or goal).
HasSnap(what) == \E k \in 1..Len(snapped) : snapped[k].what = what

SnapOf(what) ==
    snapped[CHOOSE k \in 1..Len(snapped) : snapped[k].what = what]

\* The search of the current router has started: both snaps succeeded and
\* gave two nodes.
Searched == state \in {"Searching", "Succeeded", "Failed", "Panicked"}
            /\ HasSnap("goal")
            /\ SnapOf("start").res.ok
            /\ SnapOf("goal").res.ok
            /\ SnapOf("start").res.index /= SnapOf("goal").res.index

\* The search has popped the goal.
GoalPopped == state \in {"Succeeded", "Panicked"}

(***************************************************************************)
(* The properties.                                                         *)
(***************************************************************************)
\* C1: the distance of a returned route is the sum of the distances of all
\* edges of the route, the prev chain from the goal back to the start, the
\* edge leaving the start included.
C1_DistanceIsSumOfRouteEdges ==
    state = "Succeeded" =>
        result.route.distance = SumOver(EdgeDistance, RouteEdges, 1)

\* C2: a search between two distinct snapped nodes, the goal reachable from
\* the start over permitted edges, ends Succeeded; stated for the modes Car
\* and Bike, for which Edge::time is defined.
C2_ReachableGoalSucceeds ==
    ( /\ mode \in {"Car", "Bike"}
      /\ Searched
      /\ state /= "Searching"
      /\ goal_index \in ReachableFrom({start_index}, mode) )
    => state = "Succeeded"

\* The prev chain from the goal is a path of permitted edges from the start
\* to the goal.
RouteIsPath ==
    /\ RouteEdges /= <<>>
    /\ RouteEdges[1].target_index = goal_index
    /\ RouteEdges[Len(RouteEdges)].source_index = start_index
    /\ \A k \in 1..(Len(RouteEdges) - 1) :
           RouteEdges[k].source_index = RouteEdges[k + 1].target_index
    /\ \A k \in 1..Len(RouteEdges) : RouteEdges[k] \in Permitted(mode)

\* C3: with the heuristic zero (Car, Time), when the goal has been popped
\* cost[goal] is the least summed edge cost of a permitted path from start to
\* goal, and the prev chain is a path of exactly that cost.
C3_GoalCostIsLeast ==
    (mode = "Car" /\ routing = "Time" /\ GoalPopped) =>
        /\ At(cost, goal_index) =
               LeastCost(start_index, goal_index, mode, routing)
        /\ RouteIsPath
        /\ SumOver(EdgeCostNow, RouteEdges, 1) = At(cost, goal_index)

\* A Car/Time search has popped the goal at the end of a route of two edges
\* or more, although a permitted edge leads from the start straight to a
\* later node of the route.
C3_Witness ==
    /\ mode = "Car" /\ routing = "Time" /\ GoalPopped
    /\ Len(RouteEdges) >= 2
    /\ \E e \in Permitted(mode) : \E k \in 1..(Len(RouteEdges) - 1) :
           /\ e.source_index = start_index
           /\ e.target_index = RouteEdges[k].target_index

\* C4: the path of a returned route lists the coordinates of every node of
\* the route once, from the goal (first) back to the start (last).
C4_PathListsEveryRouteNode ==
    state = "Succeeded" =>
        result.route.path =
            <<Graph_coordinates(graph, goal_index)>>
            \o [k \in 1..Len(RouteEdges) |->
                   Graph_coordinates(graph, RouteEdges[k].source_index)]

\* C5: every edge recorded in prev, and so every edge of a returned route,
\* admits the query mode.
C5_OnlyPermittedEdges ==
    /\ \A v \in DOMAIN prev : Transport_contains(prev[v].transport, mode)
    /\ state = "Succeeded" =>
           \A k \in 1..Len(RouteEdges) :
               Transport_contains(RouteEdges[k].transport, mode)

\* A search has succeeded although a node it expanded on the route has an
\* out-edge that does not admit the mode.
C5_Witness ==
    /\ state = "Succeeded"
    /\ \E k \in 1..Len(RouteEdges) : \E j \in 1..Len(graph.edges) :
           /\ graph.edges[j].source_index = RouteEdges[k].source_index
           /\ ~Transport_contains(graph.edges[j].transport, mode)

\* The snapped goal cannot be reached from the snapped start.
GoalUnreachable ==
    Searched /\ goal_index \notin ReachableFrom({start_index}, mode)

\* The rank of a search: the number of nodes of cost u32::MAX, the sum of the
\* other costs, and the length of the queue, in lexicographic order.
Unsettled(c) == Cardinality({i \in 1..Len(c) : c[i] = U32Max})

RECURSIVE SettledSum(_, _)
SettledSum(c, i) ==
    IF i > Len(c)
    THEN 0
    ELSE (IF c[i] = U32Max THEN 0 ELSE c[i]) + SettledSum(c, i + 1)

RankDecreases ==
    \/ Unsettled(cost') < Unsettled(cost)
    \/ /\ Unsettled(cost') = Unsettled(cost)
       /\ SettledSum(cost', 1) < SettledSum(cost, 1)
    \/ /\ cost' = cost
       /\ Cardinality(queue') < Cardinality(queue)

\* C6: when the snapped goal is not reachable from the snapped start over
\* edges admitting the mode, the search returns no route and ends only with
\* the queue empty and the error "No path found"; it does end, as the rank
\* of the search decreases with every turn of the loop.
C6_UnreachableGoalFails ==
    /\ [](GoalUnreachable =>
             /\ state \in {"Searching", "Failed"}
             /\ state = "Failed" => (result = Err(ErrNoPath) /\ queue = {}))
    /\ [][(GoalUnreachable /\ state = "Searching") =>
             \/ state' = "Failed" /\ queue = {}
             \/ state' = "Searching" /\ RankDecreases]_vars

\* A search with an unreachable goal has failed after relaxing an edge.
C6_Witness ==
    /\ GoalUnreachable
    /\ state = "Failed"
    /\ DOMAIN prev /= {}

\* Start and goal of the current call snapped to nodes of the same OSM id.
SameIdSnapped ==
    /\ HasSnap("goal")
    /\ SnapOf("start").res.ok
    /\ SnapOf("goal").res.ok
    /\ Graph_node(graph, SnapOf("start").res.index).id =
           Graph_node(graph, SnapOf("goal").res.index).id

\* C7: when start and goal snap to nodes of the same OSM id the call fails
\* with "No path found, start is goal" and the search state is untouched:
\* every cost is u32::MAX, the queue and prev are empty.
C7_StartIsGoalFailsUntouched ==
    SameIdSnapped =>
        /\ state = "Failed"
        /\ result = Err(ErrStartIsGoal)
        /\ \A i \in 1..Len(cost) : cost[i] = U32Max
        /\ queue = {}
        /\ DOMAIN prev = {}

\* Two different query points snapped to the same node.
C7_Witness ==
    /\ SameIdSnapped
    /\ state = "Failed"
    /\ SnapOf("start").coords /= SnapOf("goal").coords

\* The grid has no cell for the key of the point of snap k.
CellAbsent(k) == CellKey(snapped[k].coords) \notin DOMAIN graph.cells

\* C8: a snap of a point whose cell key the grid lacks fails with "Couldn't
\* locate point on map" and examines no ring, whatever the neighbouring
\* cells hold, and the call of the router fails with that error.
C8_AbsentCellIsOffMap ==
    \A k \in 1..Len(snapped) :
        CellAbsent(k) =>
            /\ ~snapped[k].res.ok
            /\ snapped[k].res.err = ErrOffMap
            /\ snapped[k].res.rings = <<>>
            /\ state = "Failed"
            /\ result = Err(ErrOffMap)

\* A start or goal point without a cell failed to snap although the ring of
\* radius 1 is within max_radius and holds a node that admits the mode.
C8_Witness ==
    \E k \in 1..Len(snapped) :
        /\ CellAbsent(k)
        /\ snapped[k].what \in {"start", "goal"}
        /\ max_radius(graph) > 1
        /\ closest(graph, adjacent_cells(graph, snapped[k].coords, 1),
                   snapped[k].coords, mode).index /= None

\* Node u has an out-edge in edges[offsets[u]..offsets[u + 1]] admitting m.
AdmitsMode(u, m) ==
    \E j \in (At(graph.offsets, u) + 1)..At(graph.offsets, u + 1) :
        Transport_contains(graph.edges[j].transport, m)

\* The cells snap k examined: the exact cell and those of its rings.
RECURSIVE ExaminedCells(_, _)
ExaminedCells(k, r) ==
    IF r > Len(snapped[k].res.rings)
    THEN <<graph.cells[CellKey(snapped[k].coords)]>>
    ELSE adjacent_cells(graph, snapped[k].coords, snapped[k].res.rings[r])
         \o ExaminedCells(k, r + 1)

EligibleExamined(k) ==
    \E c \in 1..Len(ExaminedCells(k, 1)) :
        \E n \in 1..Len(ExaminedCells(k, 1)[c]) :
            AdmitsMode(ExaminedCells(k, 1)[c][n], mode)

\* C9: a node returned by a snap has an out-edge admitting the mode; a snap
\* that found no such node in the cells it examined fails with "No point
\* matching transportation found".
C9_SnappedNodeAdmitsMode ==
    \A k \in 1..Len(snapped) :
        /\ snapped[k].res.ok => AdmitsMode(snapped[k].res.index, mode)
        /\ (~CellAbsent(k) /\ ~EligibleExamined(k)) =>
               (~snapped[k].res.ok /\ snapped[k].res.err = ErrNoMode)

\* A snap succeeded although its exact cell holds a nearer node without an
\* out-edge admitting the mode.
C9_Witness ==
    \E k \in 1..Len(snapped) :
        /\ snapped[k].res.ok
        /\ LET cell == graph.cells[CellKey(snapped[k].coords)]
           IN  \E n \in 1..Len(cell) :
                   /\ ~AdmitsMode(cell[n], mode)
                   /\ distance(Graph_coordinates(graph, cell[n]),
                               snapped[k].coords)
                      < distance(Graph_coordinates(graph, snapped[k].res.index),
                                 snapped[k].coords)

\* The first search returned a route within the current range.
FirstRouteWithinRange ==
    rt /= NoRoute /\ rt.distance <= request.current_range * 1000

\* C10: when the first route's distance is at most the current range the
\* handler answers with that route, path, distance and time unchanged and no
\* visited stations, having selected no station and searched once.
C10_FirstRouteWithinRangeReturned ==
    FirstRouteWithinRange =>
        /\ pc = "Done"
        /\ response = Ok(Route_new(rt.path, rt.time, rt.distance, None))
        /\ visited_charging_coords = <<>>
        /\ selections = 0
        /\ searches = 1

\* The first route is exactly as long as the current range.
C10_Witness ==
    /\ FirstRouteWithinRange
    /\ pc = "Done"
    /\ rt.distance = request.current_range * 1000
    /\ rt.distance > 0

\* C11: the chaining loop runs at most MaxIter (100) iterations: no iteration
\* is entered once 100 are complete, and when the 100th ends with the goal
\* leg still out of range the answer is "Please enter reasonable ranges.".
C11_AtMostHundredIterations ==
    /\ iter_count <= MaxIter
    /\ pc \in {"Charging", "Goal"} => iter_count < MaxIter
    /\ (iter_count = MaxIter /\ required_range > current_range_in_meters) =>
           (pc = "Done" /\ response = Err(ErrRanges))

\* The final outcomes of a request: a direct route, a chained route, the
\* abort by the iteration guard, or the error of a failed search.
FinalOutcome ==
    /\ pc = "Done"
    /\ response.kind \in {"Ok", "Err"}

\* The order of the handler's positions and of a router's states.
Phase(p) ==
    CASE p = "Idle" -> 0
      [] p = "First" -> 1
      [] p = "Charging" -> 2
      [] p = "Goal" -> 3
      [] OTHER -> 4

Stage(x) ==
    CASE x = "None" -> 0
      [] x = "Idle" -> 1
      [] x = "Searching" -> 2
      [] OTHER -> 3

\* Every step of a run makes progress in the order (iter_count, position of
\* the handler, state of the router, rank of the search); with iter_count
\* bounded, every run is finite.
PlannerProgress ==
    [][\/ iter_count' > iter_count
       \/ iter_count' = iter_count /\ Phase(pc') > Phase(pc)
       \/ iter_count' = iter_count /\ pc' = pc /\ Stage(state') > Stage(state)
       \/ /\ iter_count' = iter_count /\ pc' = pc
          /\ state' = state /\ state = "Searching"
          /\ RankDecreases]_vars

\* C12: every run of the handler ends in a final outcome after finitely many
\* iterations of the loop: the iterations never exceed the guard's count and
\* no run ends without an answer.
C12_EveryRunEndsInFinalOutcome ==
    /\ iter_count <= MaxIter + 1
    /\ pc \in {"Done", "Aborted"} => FinalOutcome

\* Charging node k passes the filter of the selection for a start s and a
\* range: it offers the charging the mode requires, lies away from s, and
\* one and a half times its distance from s is below the range.
PassesFilter(k, s, range) ==
    LET node == graph.charging_nodes[k]
    IN  /\ ChargingOptions_contains(node.charging_options,
                                    ChargingOptions_from(mode))
        /\ distance(s, node.coordinates) > 0
        /\ 3 * distance(s, node.coordinates) < 2 * range

NoStationPasses(s, range) ==
    \A k \in 1..Len(graph.charging_nodes) : ~PassesFilter(k, s, range)

\* C13: when no charging node passes the filter the selection returns the
\* current start, and the request then ends by the iteration guard, with
\* "Please enter reasonable ranges.".
C13_NoStationEndsByGuard ==
    ( /\ pc = "Done"
      /\ HasSnap("station")
      /\ NoStationPasses(start, current_range_in_meters) )
    => /\ SnapOf("station").coords = start
       /\ response = Err(ErrRanges)

\* The charging nodes the selection may choose for a start s and a range:
\* those offering the charging the mode requires with 1.5 d < range.
Candidates(s, range) ==
    {k \in 1..Len(graph.charging_nodes) :
        /\ ChargingOptions_contains(graph.charging_nodes[k].charging_options,
                                    ChargingOptions_from(mode))
        /\ 3 * distance(s, graph.charging_nodes[k].coordinates) < 2 * range}

\* Candidate k is a best one: farthest from s and, among the farthest,
\* nearest to the goal.
BestCandidate(k, s, goal, range) ==
    LET from(j) == distance(s, graph.charging_nodes[j].coordinates)
        to(j) == distance(goal, graph.charging_nodes[j].coordinates)
    IN  /\ k \in Candidates(s, range)
        /\ \A j \in Candidates(s, range) :
               \/ from(j) < from(k)
               \/ from(j) = from(k) /\ to(k) <= to(j)

\* C14: the station selected for a start and a range is a candidate of
\* greatest distance from the start, ties broken by least distance to the
\* goal, whatever the order of the registry.
C14_SelectionIsFarthestCandidate ==
    ( /\ pc = "Charging"
      /\ HasSnap("station")
      /\ Candidates(start, current_range_in_meters) /= {} )
    => \E k \in 1..Len(graph.charging_nodes) :
           /\ BestCandidate(k, start, request.goal, current_range_in_meters)
           /\ graph.charging_nodes[k].coordinates = SnapOf("station").coords

\* The handler has answered with a chained route.
ChainedRoute ==
    /\ pc = "Done"
    /\ response.kind = "Ok"
    /\ visited_charging_coords /= <<>>

\* The road distance of a leg: the sum of the distances of its edges.
RoadDistance(leg) == SumOver(EdgeDistance, leg.edges, 1)

\* C15: in a chained route every leg driven after a charge, from a station to
\* the next station or from the last station to the goal, has a road distance
\* of at most max_range_in_meters.
C15_LegsAfterChargeWithinMaxRange ==
    ChainedRoute =>
        \A k \in 2..Len(legs) :
            legs[k].kept => RoadDistance(legs[k]) <= max_range_in_meters

\* The part of a leg's path the handler stitches in: a leg to a station
\* loses its first vertex.
StitchedPart(leg) ==
    IF leg.kind = "charging" THEN Tail(leg.route.path) ELSE leg.route.path

RECURSIVE KeptDistance(_)
KeptDistance(k) ==
    IF k = 0 THEN 0
    ELSE KeptDistance(k - 1) + (IF legs[k].kept THEN legs[k].route.distance ELSE 0)

RECURSIVE KeptTime(_)
KeptTime(k) ==
    IF k = 0 THEN 0
    ELSE KeptTime(k - 1) + (IF legs[k].kept THEN legs[k].route.time ELSE 0)

\* The vertices of the returned path, leg by leg: the kept legs, the last
\* one first.
RECURSIVE KeptPath(_)
KeptPath(k) ==
    IF k = 0 THEN <<>>
    ELSE (IF legs[k].kept THEN StitchedPart(legs[k]) ELSE <<>>) \o KeptPath(k - 1)

\* C16: the distance and the time of a chained route are the sums of the
\* distances and times the router returned for exactly the legs whose paths
\* make up the returned path; a station-to-goal result that was out of range
\* adds neither vertices nor distance nor time.
C16_TotalsAreSumsOfKeptLegs ==
    ChainedRoute =>
        /\ \A k \in 1..Len(legs) :
               legs[k].kept <=> (legs[k].kind = "charging" \/ k = Len(legs))
        /\ response.route.path = KeptPath(Len(legs))
        /\ response.route.distance = KeptDistance(Len(legs))
        /\ response.route.time = KeptTime(Len(legs))

C16_Witness ==
    /\ ChainedRoute
    /\ \E k \in 1..Len(legs) : ~legs[k].kept /\ legs[k].route.distance > 0

\* The range the vehicle has when it sets out on leg k: the current range
\* of the request before the first charge, the maximum range after it.
RangeBeforeLeg(k) ==
    IF k = 1 THEN request.current_range * 1000 ELSE max_range_in_meters

IsStation(coords) ==
    \E c \in 1..Len(graph.charging_nodes) :
        graph.charging_nodes[c].coordinates = coords

\* C17: the list of visited stations has one entry per leg driven to a
\* station, in visit order; the i-th entry is the coordinate of the station
\* the selection chose for the i-th charge, and it is the start of the two
\* searches that follow that charge (to the goal, then to the next station);
\* a chained route carries the list with one entry per completed iteration.
C17_VisitedIsStartsInVisitOrder ==
    /\ Len(visited_charging_coords) = (Len(legs) + 1) \div 2
    /\ \A k \in 1..Len(legs) :
           /\ legs[k].kind = (IF k % 2 = 1 THEN "charging" ELSE "goal")
           /\ legs[k].from =
                  (IF k = 1 THEN request.start
                   ELSE visited_charging_coords[k \div 2])
           /\ k % 2 = 1 =>
                  /\ visited_charging_coords[(k + 1) \div 2] =
                         get_optimal_charging_station_coords(
                             graph, request.transport, legs[k].from,
                             request.goal, RangeBeforeLeg(k))
                  /\ IsStation(visited_charging_coords[(k + 1) \div 2])
    /\ pc = "Goal" =>
           start = visited_charging_coords[Len(visited_charging_coords)]
    /\ ChainedRoute =>
           /\ Len(visited_charging_coords) = iter_count
           /\ response.route.visited_charging = Some(visited_charging_coords)

C17_Witness ==
    /\ ChainedRoute
    /\ Len(visited_charging_coords) = 2
    /\ visited_charging_coords[1] /= visited_charging_coords[2]

Last(seq) == seq[Len(seq)]

Occurrences(x, seq) == Cardinality({k \in 1..Len(seq) : seq[k] = x})

\* The coordinate of the node a query coordinate snaps to.
SnappedCoords(coords) ==
    Graph_coordinates(graph,
                      nearest_neighbor(graph, coords, request.transport).index)

\* The leg driven after the leg to a station: the next leg to a station, or
\* the last station-to-goal leg.
LegAfter(k) == IF k + 1 = Len(legs) THEN k + 1 ELSE k + 2

C19_MixedModeReturnsRoute ==
    ( /\ mode \in {"CarBike", "All"}
      /\ Searched
      /\ state /= "Searching"
      /\ goal_index \in ReachableFrom({start_index}, mode) )
    => /\ state = "Succeeded"
       /\ result.kind = "Ok"

Returned(fn) == call.fn = fn /\ call.ret /= None

\* C20 as stated: a.contains(b) is true exactly when a is All, or a is b, or
\* a is CarBike and b is Car or Bike.
C20_ContainsAsStated ==
    Returned("Transport::contains") =>
        LET a == call.args[1]
            b == call.args[2]
        IN  Unwrap(call.ret) <=>
                \/ a = "All"
                \/ a = b
                \/ (a = "CarBike" /\ b \in {"Car", "Bike"})

\* C20: for all Transport values a and b, a.contains(b) is true exactly when
\* a is All, or a is b, or a is CarBike and b is Car or Bike, or a is BikeWalk
\* and b is Bike or Walk.
C20_ContainsWithBikeWalk ==
    Returned("Transport::contains") =>
        LET a == call.args[1]
            b == call.args[2]
        IN  Unwrap(call.ret) <=>
                \/ a = "All"
                \/ a = b
                \/ (a = "CarBike" /\ b \in {"Car", "Bike"})
                \/ (a = "BikeWalk" /\ b \in {"Bike", "Walk"})

C20_Witness ==
    /\ Returned("Transport::contains")
    /\ call.args = <<"BikeWalk", "Bike">>
    /\ call.ret = Some(TRUE)

\* C21: Kmh(s).time(d) is a whole number of seconds nearest to
\* d / (s / 3.6) = 36 d / (10 s), for every speed s > 0 and distance d; and
\* Kmh(50).time(200) = 14, Kmh(20).time(200) = 36, Kmh(5).time(200) = 144.
C21_TimeIsNearestSecond ==
    Returned("Kmh::time") =>
        LET s == call.args[1]
            d == call.args[2]
            t == Unwrap(call.ret)
        IN  /\ 2 * Abs(10 * s * t - 36 * d) <= 10 * s
            /\ (s = 50 /\ d = 200) => t = 14
            /\ (s = 20 /\ d = 200) => t = 36
            /\ (s = 5 /\ d = 200) => t = 144

Popped == call.fn = "pop"

\* C22: under any pushes and pops, the entry a pop returns has a priority
\* (cost + heuristic) no greater than that of any entry still queued; and of
\* two pops in a row, with no push between them, the second returns a
\* priority no less than the first.
C22_PopReturnsLeastPriority ==
    /\ [](Popped =>
             \A other \in queue :
                 priority(Unwrap(call.ret)) <= priority(other))
    /\ [][(Popped /\ call'.fn = "pop") =>
             priority(Unwrap(call.ret)) <= priority(Unwrap(call'.ret))]_vars

\* A pop that left behind an entry of the same priority and one of a
\* greater priority, after an earlier pop.
C22_Witness ==
    /\ Popped
    /\ \E a \in queue : priority(a) = priority(Unwrap(call.ret))
    /\ \E b \in queue : priority(b) > priority(Unwrap(call.ret))

\* The build has returned and published its graph.
Built == call.fn = "Pbf::read" /\ call.ret = Some("Ok")

\* C23: after the build, with N nodes and E edges, offsets has N + 1
\* entries, offsets[0] = 0, offsets[N] = E and offsets[i] <= offsets[i + 1]
\* for every i in 0..N-1.
C23_OffsetsArePrefixCounts ==
    Built =>
        LET N == Len(graph.nodes)
            E == Len(graph.edges)
        IN  /\ Len(graph.offsets) = N + 1
            /\ At(graph.offsets, 0) = 0
            /\ At(graph.offsets, N) = E
            /\ \A i \in 0..(N - 1) :
                   At(graph.offsets, i) <= At(graph.offsets, i + 1)

\* The ways of the extract the builder accepts: those with a highway tag
\* of a known class.
AcceptedWays(osm) ==
    {k \in 1..Len(osm.ways) : Highway_from(osm.ways[k]) /= None}

\* The node ids the accepted ways name, and the ids of the node stream.
NamedIds(osm) ==
    UNION {{osm.ways[k].nodes[j] : j \in 1..Len(osm.ways[k].nodes)} :
               k \in AcceptedWays(osm)}

StreamIds(osm) == {osm.nodes[k].id : k \in 1..Len(osm.nodes)}

\* The build has ended, one way or the other.
BuildEnded == call.fn = "Pbf::read" /\ call.ret /= None

\* C26: when an accepted highway way names a node id that the node stream
\* lacks, the build aborts and publishes no graph, also when the id occurs
\* only in a way of a single node.
C26_AbsentNodeAbortsBuild ==
    (BuildEnded /\ ~(NamedIds(call.args[1]) \subseteq StreamIds(call.args[1])))
    => /\ call.ret = Some("Panic")
       /\ graph = <<>>

\* C24: after the build, for every node u the span
\* edges[offsets[u]..offsets[u + 1]] holds exactly the edges whose
\* source_index is u: every edge of the span has source u, and no edge with
\* source u lies outside the span.
C24_SpanHoldsEdgesOfSource ==
    Built =>
        \A u \in 0..(Len(graph.nodes) - 1) :
            /\ u + 2 <= Len(graph.offsets)
            /\ \A k \in 1..Len(graph.edges) :
                   (At(graph.offsets, u) < k /\ k <= At(graph.offsets, u + 1))
                   <=> graph.edges[k].source_index = u

\* A graph with a node of two out-edges after a node of one.
C24_Witness ==
    /\ Built
    /\ Len(graph.nodes) >= 3
    /\ Len(Graph_edges(graph, 0)) = 1
    /\ Len(Graph_edges(graph, 1)) = 2

\* The index the way pass gave each node id the accepted ways name, in the
\* order of first appearance.
WayIndex(osm) == parse_ways(Pbf_new, osm.ways).pbf.node_indices

\* The emissions an extract calls for: one per accepted way w, consecutive
\* pair i (nodes i and i + 1 of the way) and direction, the reverse
\* direction only when the oneway tag is absent or is not "yes".
Emissions(osm) ==
    UNION {{x \in [w : {w}, i : 1..(Len(osm.ways[w].nodes) - 1),
                   reverse : BOOLEAN] :
               x.reverse => (\/ osm.ways[w].oneway = None
                             \/ Unwrap(osm.ways[w].oneway) /= "yes")} :
           w \in AcceptedWays(osm)}

\* The edge an emission stands for, its distance left aside.
EmittedEdge(osm, x) ==
    LET way == osm.ways[x.w]
        a == WayIndex(osm)[way.nodes[x.i]]
        b == WayIndex(osm)[way.nodes[x.i + 1]]
        highway == Unwrap(Highway_from(way))
    IN  [source_index |-> IF x.reverse THEN b ELSE a,
         target_index |-> IF x.reverse THEN a ELSE b,
         transport |-> Transport_from(highway),
         max_speed |-> IF Kmh_from(way) /= None THEN Unwrap(Kmh_from(way))
                       ELSE default_speed(highway)]

WithoutDistance(edge) ==
    [source_index |-> edge.source_index, target_index |-> edge.target_index,
     transport |-> edge.transport, max_speed |-> edge.max_speed]

\* C25: for each consecutive pair (a, b) of an accepted highway way the
\* graph holds one edge a -> b, and one reverse edge b -> a exactly when the
\* way is not oneway (tag absent or other than "yes"), with the transport
\* and max speed of the way and the distance of the forward edge; the graph
\* holds no other edge.
C25_EdgePerPairAndReverseUnlessOneway ==
    Built =>
        LET osm == call.args[1]
            wanted == Emissions(osm)
        IN  /\ \A x \in wanted :
                   Cardinality({y \in wanted :
                                   EmittedEdge(osm, y) = EmittedEdge(osm, x)})
                   = Cardinality({k \in 1..Len(graph.edges) :
                                     WithoutDistance(graph.edges[k])
                                     = EmittedEdge(osm, x)})
            /\ Len(graph.edges) = Cardinality(wanted)
            /\ \A j, k \in 1..Len(graph.edges) :
                   (/\ graph.edges[j].source_index = graph.edges[k].target_index
                    /\ graph.edges[j].target_index = graph.edges[k].source_index)
                   => graph.edges[j].distance = graph.edges[k].distance

\* A graph built from a way tagged oneway = "no" and a way tagged
\* oneway = "yes": three edges, two of them a pair of opposite directions.
C25_Witness ==
    /\ Built
    /\ \E v, w \in AcceptedWays(call.args[1]) :
           /\ call.args[1].ways[v].oneway = Some("no")
           /\ call.args[1].ways[w].oneway = Some("yes")
    /\ Len(graph.edges) = 3

\* C27: after the build the distance of every edge is the rounded distance
\* between nodes[source_index] and nodes[target_index] of the published
\* graph, so no edge keeps the provisional 0 unless its endpoints are less
\* than half a metre apart.
C27_DistanceIsBetweenEndpoints ==
    Built =>
        \A k \in 1..Len(graph.edges) :
            LET edge == graph.edges[k]
            IN  /\ edge.source_index < Len(graph.nodes)
                /\ edge.target_index < Len(graph.nodes)
                /\ LET a == Graph_node(graph, edge.source_index).coordinates
                       b == Graph_node(graph, edge.target_index).coordinates
                   IN  /\ edge.distance = distance(a, b)
                       /\ edge.distance = 0 =>
                              2 * (Abs(a.lat - b.lat) + Abs(a.lon - b.lon))
                              < UnitsPerMeter

\* Both queries have returned.
BothReturned == call = NoCall /\ DOMAIN pc = Workers /\ \A q \in Workers : pc[q] = "Done"

C29_QueriesDoNotInterfere ==
    /\ [][graph' = graph]_vars
    /\ [](\A q \in Workers :
              pc[q] = "Done" =>
                  response[q] = shortest_path_alone(graph, request[q]))
    /\ [][\E q \in Workers :
              /\ \A p \in Workers \ {q} :
                     pc'[p] = pc[p] /\ response'[p] = response[p]
              /\ \A r \in Workers \ {router_of(q)} :
                     /\ queue'[r] = queue[r]
                     /\ cost'[r] = cost[r]
                     /\ prev'[r] = prev[r]]_vars

\* A query has returned a route while the other, with another start, was
\* in the middle of its search, entries in its queue.
C29_Witness ==
    /\ call = NoCall
    /\ pc[1] = "Done"
    /\ response[1].kind = "Ok"
    /\ pc[2] = "Search"
    /\ request[2].start /= request[1].start
    /\ Len(queue[2]) >= 2

\* The fields of a router no search has touched.
Fresh(q, c, p) ==
    /\ q = {}
    /\ p = <<>>
    /\ c = [i \in 1..Len(graph.nodes) |-> U32Max]

\* C30: every Router made while a request is served performs at most one
\* search and is then discarded for a new one: a search starts only on a
\* router that is Idle, a router that has Succeeded or Failed (or panicked)
\* never searches again, and an Idle router has cost all infinity, an
\* empty queue and an empty prev, so that the first search and every leg
\* search start from the start node alone.
C30_RouterIsSingleShot ==
    /\ [](state = "Idle" => Fresh(queue, cost, prev))
    /\ [][/\ searches' /= searches =>
                 /\ state = "Idle"
                 /\ state' \in {"Searching", "Failed"}
                 /\ searches' = searches + 1
          /\ (state' = "Searching" /\ state /= "Searching") =>
                 /\ state = "Idle"
                 /\ queue' = {RouterNode_new(start_index', 0, 0)}
                 /\ prev' = <<>>
                 /\ cost' = [i \in 1..Len(graph.nodes) |->
                                IF i = start_index' + 1 THEN 0 ELSE U32Max]
          /\ state = "Searching" =>
                 state' \in {"Searching", "Succeeded", "Failed", "Panicked"}
          /\ state \in {"Succeeded", "Failed", "Panicked"} =>
                 state' \in {state, "Idle"}]_vars

\* The third search of a request, from a station to the goal, stands at its
\* start: the routers of the first search and of the leg to the station
\* are gone, and the queue holds the start node alone.
C30_Witness ==
    /\ state = "Searching"
    /\ pc = "Goal"
    /\ searches = 3
    /\ prev = <<>>
    /\ queue = {RouterNode_new(start_index, 0, 0)}

\* C39: after the build every source_index and target_index of an edge is
\* in [0, N), N the length of the published nodes array, offsets has N + 1
\* entries, and nodes[i] is the OSM node that the way pass gave the index i.
C39_IndicesAreDenseAndKept ==
    Built =>
        LET N == Len(graph.nodes)
            index == WayIndex(call.args[1])
        IN  /\ \A k \in 1..Len(graph.edges) :
                   /\ graph.edges[k].source_index \in 0..(N - 1)
                   /\ graph.edges[k].target_index \in 0..(N - 1)
            /\ Len(graph.offsets) = N + 1
            /\ \A i \in 0..(N - 1) :
                   /\ Graph_node(graph, i).id \in DOMAIN index
                   /\ index[Graph_node(graph, i).id] = i

\* The haversine heuristic is the one in use.
HeuristicActive == ~(mode = "Car" /\ routing = "Time")

\* C31: when the haversine heuristic is active (every query but Car with
\* objective Time) it is admissible: for every node v from which the goal
\* can be reached, heuristic(v, goal) is at most the least summed edge cost
\* (sum of rounded distances) of a permitted path from v to the goal; and
\* the route returned has the least total distance of all permitted paths
\* from start to goal.
C31_HeuristicAdmissibleRouteLeast ==
    (HeuristicActive /\ Searched) =>
        /\ \A v \in NodeIndices :
               LeastCost(v, goal_index, mode, routing) < U32Max =>
                   heuristic(graph, mode, routing, v, goal_index)
                   <= LeastCost(v, goal_index, mode, routing)
        /\ GoalPopped =>
               SumOver(EdgeDistance, RouteEdges, 1)
               = LeastCost(start_index, goal_index, mode, routing)

\* The keys of the existing cells on the perimeter of the ring of radius r
\* round the cell of key: those that differ from key by (dx, dy) with
\* max(|dx|, |dy|) = r.
RingKeys(key, r) ==
    {<<key[1] + d[1], key[2] + d[2]>> :
        d \in {e \in ((-r)..r) \X ((-r)..r) : Abs(e[1]) = r \/ Abs(e[2]) = r}}
    \cap DOMAIN graph.cells

\* The elements of a sequence.
Range(seq) == {seq[n] : n \in 1..Len(seq)}

\* C32: the cells a snap examines at ring radius r are exactly the existing
\* cells whose key differs from the key of the query point by (dx, dy) with
\* max(|dx|, |dy|) = r, the perimeter directly round the rings scanned before.
C32_RingIsPerimeterOfCells ==
    \A k \in 1..Len(snapped) :
        \A n \in 1..Len(snapped[k].res.rings) :
            Range(adjacent_cells(graph, snapped[k].coords,
                                 snapped[k].res.rings[n]))
            = {graph.cells[key] :
                  key \in RingKeys(CellKey(snapped[k].coords),
                                   snapped[k].res.rings[n])}

\* The best candidate of the ring of radius r round the point of snap k.
RingBest(k, r) ==
    closest(graph, adjacent_cells(graph, snapped[k].coords, r),
            snapped[k].coords, mode)

\* The running best of snap k after the rings of radius 1..n: that of the
\* exact cell, replaced by the best of a ring when there is none yet or the
\* ring's is strictly nearer.
RECURSIVE RunningBest(_, _)
RunningBest(k, n) ==
    IF n = 0
    THEN closest(graph, <<graph.cells[CellKey(snapped[k].coords)]>>,
                 snapped[k].coords, mode)
    ELSE LET before == RunningBest(k, n - 1)
         IN  IF before.index = None \/ before.dist > RingBest(k, n).dist
             THEN RingBest(k, n)
             ELSE before

\* The ring of radius n brings snap k no improvement.
NoImprovement(k, n) ==
    /\ RunningBest(k, n - 1).index /= None
    /\ RunningBest(k, n - 1).dist <= RingBest(k, n).dist

\* C33: unless the no-improvement rule stops it earlier, a snap examines
\* the ring of every radius from 1 up to and including
\* floor(0.1 * number of cells), and no ring of a larger radius.
C33_RingsUpToTenthOfCells ==
    \A k \in 1..Len(snapped) :
        ~CellAbsent(k) =>
            LET rings == snapped[k].res.rings
                last == Cardinality(DOMAIN graph.cells) \div 10
            IN  /\ \A n \in 1..Len(rings) : rings[n] = n /\ n <= last
                /\ Len(rings) < last =>
                       Len(rings) >= 1 /\ NoImprovement(k, Len(rings))

\* The nodes of the exact cell of snap k with an out-edge admitting the mode.
OwnCellEligible(k) ==
    {u \in Range(graph.cells[CellKey(snapped[k].coords)]) : AdmitsMode(u, mode)}

PoppedEntry == queue \ queue'

\* The step changes a field the relaxation of an edge writes.
Relaxes == cost' /= cost \/ prev' /= prev \/ queue' \ queue /= {}

IsGoalEntry(node) ==
    Graph_node(graph, node.index).id = Graph_node(graph, goal_index).id

\* C35: a popped entry of a node other than the goal whose cost exceeds
\* cost[u] is discarded and no edge is relaxed; out-edges of u are relaxed
\* only from an entry whose cost equals cost[u]; no cost[v] increases in the
\* course of a search.
C35_StaleEntryDiscarded ==
    [][ state = "Searching" =>
          /\ \A node \in PoppedEntry :
                 /\ (~IsGoalEntry(node) /\ node.cost > At(cost, node.index)) =>
                        (~Relaxes /\ queue' = queue \ {node})
                 /\ Relaxes =>
                        (~IsGoalEntry(node) /\ node.cost = At(cost, node.index))
          /\ Relaxes => PoppedEntry /= {}
          /\ \A v \in NodeIndices : At(cost', v) <= At(cost, v) ]_vars

\* The entry about to be popped is one of a node other than the goal whose
\* cost a relaxation has lowered since the entry was pushed.
C35_Witness ==
    /\ state = "Searching"
    /\ \E node \in queue :
           /\ is_max(node, queue)
           /\ ~IsGoalEntry(node)
           /\ node.cost > At(cost, node.index)
           /\ node.index \in DOMAIN prev

\* The search of a leg of the chain, to the station or from it to the
\* goal, has failed.
LegFailed == pc \in {"Charging", "Goal"} /\ state = "Failed"

\* C36: when the search to the chosen station or the search from the
\* station to the goal fails (a snap fails, start is goal, or no path), the
\* next step of the handler ends the request with the error string of that
\* search and with no route, whatever has been stitched so far.
C36_LegFailureEndsRequest ==
    [][ LegFailed =>
          /\ result.kind = "Err"
          /\ result.error \in {ErrOffMap, ErrNoMode, ErrStartIsGoal, ErrNoPath}
          /\ pc' = "Done"
          /\ response' = Err(result.error)
          /\ response'.route = NoRoute ]_vars

\* The leg from the station to the goal found no path after the leg to the
\* station had been stitched in, and the request ended with that error.
C36_Witness ==
    /\ pc = "Done"
    /\ state = "Failed"
    /\ response = Err(ErrNoPath)
    /\ Len(visited_charging_coords) = 1
    /\ final_path /= <<>>
    /\ final_distance > 0

\* Following prev from node v arrives at the start within fuel steps.
RECURSIVE ReachesStart(_, _)
ReachesStart(v, fuel) ==
    IF v = start_index
    THEN TRUE
    ELSE IF fuel = 0 \/ v \notin DOMAIN prev
         THEN FALSE
         ELSE ReachesStart(prev[v].source_index, fuel - 1)

\* C37: in every state of a search prev[start] is unset, every node v
\* other than the start with cost[v] below u32::MAX has in prev[v] an edge
\* whose target_index is v, and following prev from v arrives at the start
\* within one step per node: the prev edges form a tree rooted at the
\* start, also when edges cost 0.
C37_PrevIsTreeRootedAtStart ==
    Searched =>
        /\ start_index \notin DOMAIN prev
        /\ \A v \in NodeIndices \ {start_index} :
               At(cost, v) < U32Max =>
                   /\ v \in DOMAIN prev
                   /\ prev[v].target_index = v
                   /\ ReachesStart(v, Len(graph.nodes))

\* A search has recorded a chain of two prev edges, one of them of cost 0
\* and with an edge of cost 0 leading back along it.
C37_Witness ==
    /\ state = "Searching"
    /\ \E v \in DOMAIN prev :
           /\ Len(PrevChain(v, Len(graph.nodes))) >= 2
           /\ EdgeCostNow(prev[v]) = 0
           /\ \E k \in 1..Len(graph.edges) :
                  /\ graph.edges[k].source_index = v
                  /\ graph.edges[k].target_index = prev[v].source_index
                  /\ Transport_contains(graph.edges[k].transport, mode)
                  /\ EdgeCostNow(graph.edges[k]) = 0

\* The range the vehicle has when it sets out on leg k of the chain: the
\* range of the request on the first leg, max_range after a charge.
RangeAtStartOf(k) ==
    IF k = 1 THEN request.current_range * 1000 ELSE max_range_in_meters

\* C38: in a chained route the planner returns, the first leg, from the
\* start to the first station, has a road distance of at most the current
\* range, and no leg of the route is longer than the range the vehicle has
\* at the start of that leg.
C38_LegsWithinRangeAtTheirStart ==
    ChainedRoute =>
        /\ RoadDistance(legs[1]) <= request.current_range * 1000
        /\ \A k \in 1..Len(legs) :
               legs[k].kept => RoadDistance(legs[k]) <= RangeAtStartOf(k)

====
